---------------------------- MODULE Spec2Model ----------------------------
(***************************************************************************)
(* A model of the chunk scheduling and subtitle assembly engine of         *)
(* MPV-Audio2Subs: audio2subs/engine.py (TranscriptionEngine),             *)
(* audio2subs/subtitle.py (SubtitleWriter) and audio2subs/audio.py         *)
(* (AudioExtractor).                                                       *)
(*                                                                         *)
(* Units.  The scheduler works in whole seconds (chunk_duration_seconds is *)
(* an int, chunk start times are idx * chunk_duration).  Word and segment  *)
(* times are floats in the code and are modelled as whole milliseconds.    *)
(* Text is a sequence of one-character strings.                            *)
(*                                                                         *)
(* Threads.  The player thread calls process_time_update, the control      *)
(* thread calls start and stop, the worker and writer threads run _worker  *)
(* and _writer_worker, the extraction thread runs                          *)
(* _streaming_extraction_worker.  One action is one step that the code     *)
(* performs without another thread being able to observe an intermediate   *)
(* state: a region under _queue_lock or the store lock, one blocking call, *)
(* or one read of an event.                                                *)
(***************************************************************************)
EXTENDS Integers, Sequences, FiniteSets, TLC

-----------------------------------------------------------------------------
(* Program constants *)

\* config.py: ServiceConfig.chunk_duration_seconds
chunk_duration_seconds == 60
\* engine.py: TranscriptionEngine.IDLE_PRIORITY_OFFSET
\* (IdleOffsetTooSmall: a faulty offset, within the range of active priorities)
IdleOffsetTooSmall == 10 * 10
IDLE_PRIORITY_OFFSET == 1000000
\* config.py: SubtitleConfig timing rules, in milliseconds
min_duration_s == 800
max_duration_s == 7000
min_gap_s == 150
padding_s == 150
\* config.py: SubtitleConfig.max_chars_per_line
max_chars_per_line == 42
\* subtitle.py: SubtitleSegment.overlaps(tolerance=0.1), in milliseconds
overlap_tolerance == 100

\* SubtitleConfig() with its defaults
DefaultSubtitleConfig ==
  [min_duration_s |-> min_duration_s, max_duration_s |-> max_duration_s,
   min_gap_s |-> min_gap_s, padding_s |-> padding_s,
   max_chars_per_line |-> max_chars_per_line]

-----------------------------------------------------------------------------
(* Bounds of the model *)

\* the media file has MaxChunks chunks
MaxChunks == 3

\* the duration handed to the constructor, in seconds: the last chunk is
\* shorter than chunk_duration_seconds
Durations == {MaxChunks * chunk_duration_seconds - 30}

\* playback positions the player reports, in seconds: 0 and 60 differ by
\* exactly chunk_duration_seconds (not a seek), 130 is a seek away from both
\* and its look-ahead window leaves chunk 0 out
Times == {0, 60, 130}
\* the same without the position in between
SeekTimes == {0, 130}

\* the number of process_time_update calls of a run in which the player
\* stops reporting positions
MaxUpdates == 2

-----------------------------------------------------------------------------
(* Arithmetic helpers *)

Abs(x) == IF x < 0 THEN -x ELSE x
Min2(a, b) == IF a < b THEN a ELSE b
Max2(a, b) == IF a > b THEN a ELSE b
\* math.ceil(a / b) for a >= 0, b > 0
CeilDiv(a, b) == (a + b - 1) \div b

-----------------------------------------------------------------------------
(* Chunk arithmetic: TranscriptionEngine.__init__, _queue_chunk *)

\* engine.py:68
TotalChunks(d) == IF d > 0 THEN Max2(1, CeilDiv(d, chunk_duration_seconds)) ELSE 1

\* engine.py:296, 313
ChunkStart(idx) == idx * chunk_duration_seconds

\* engine.py:302, 316: the task tuple (start_time, end_time, chunk_idx)
ChunkTask(idx, d) ==
  <<ChunkStart(idx), Min2(ChunkStart(idx) + chunk_duration_seconds, d), idx>>

\* engine.py:188: int(current_time / chunk_duration), current_time >= 0
CurrentChunk(t) == t \div chunk_duration_seconds

\* engine.py:303
ActivePriority(start, t) == Abs(start - t)

\* engine.py:317
IdlePriority(idx) == IDLE_PRIORITY_OFFSET + idx

\* engine.py:180: a large seek
\* (IsSeekInclusive: a faulty test that takes a move of exactly one chunk
\* duration for a seek)
IsSeekInclusive(t, last) == Abs(t - last) >= chunk_duration_seconds
IsSeek(t, last) == Abs(t - last) > chunk_duration_seconds

-----------------------------------------------------------------------------
(* The priority queue.  A queue entry is <<priority, task, kind>>: the     *)
(* tuple (priority, task) the code puts, and kind ("active" for            *)
(* _queue_chunk, "idle" for _queue_idle_chunk), which the code does not    *)
(* store and never reads: it records who admitted the entry.  The queue    *)
(* holds at most one entry per chunk start at a time, so it is a set.      *)

\* Python's tuple order on (start_time, end_time, chunk_idx)
\* (TaskLessReversed: a faulty order that puts the later chunk first)
TaskLessReversed(a, b) ==
  \/ a[1] > b[1]
  \/ a[1] = b[1] /\ a[2] > b[2]
  \/ a[1] = b[1] /\ a[2] = b[2] /\ a[3] > b[3]
TaskLess(a, b) ==
  \/ a[1] < b[1]
  \/ a[1] = b[1] /\ a[2] < b[2]
  \/ a[1] = b[1] /\ a[2] = b[2] /\ a[3] < b[3]

\* heapq's order on (priority, task)
EntryLess(a, b) == a[1] < b[1] \/ (a[1] = b[1] /\ TaskLess(a[2], b[2]))

\* PriorityQueue.get: the least entry
QueueMin(q) == CHOOSE e \in q : \A f \in q : f = e \/ EntryLess(e, f)

\* engine.py:337: _clear_queue keeps the entries at idle priority
\* (ClearKeepsAll: a faulty _clear_queue that keeps every entry)
ClearKeepsAll(e) == TRUE
ClearKeeps(e) == e[1] >= IDLE_PRIORITY_OFFSET

\* engine.py:329-341: the queue after _clear_queue
ClearedQueue(q) == {e \in q : ClearKeeps(e)}

\* engine.py:334-339: _clear_queue takes the entries out of the old queue,
\* least first, and puts the ones it keeps in that order
RECURSIVE PutOrderOf(_)
PutOrderOf(q) ==
  IF q = {} THEN <<>>
  ELSE <<QueueMin(q)>> \o PutOrderOf(q \ {QueueMin(q)})

\* engine.py:331, 339: the queued set after _clear_queue
ClearedQueued(q) == {e[2][1] : e \in ClearedQueue(q)}

\* engine.py:280: the queued set after the finally block of _process_chunk
\* (FinallyQueuedKeepsMark: a faulty finally block without the discard)
FinallyQueuedKeepsMark(queued, start) == queued
FinallyQueued(queued, start) == queued \ {start}

-----------------------------------------------------------------------------
(* Subtitle Refiner: SubtitleWriter._words_to_segments.  A word is          *)
(* [word, start, end], a segment is [start, end, text].                     *)

\* " ".join(w.word for w in ws)
RECURSIVE JoinWords(_)
JoinWords(ws) ==
  IF ws = <<>> THEN <<>>
  ELSE IF Len(ws) = 1 THEN ws[1].word
  ELSE ws[1].word \o <<" ">> \o JoinWords(Tail(ws))

\* subtitle.py:146: any(p in word.word for p in ".?!")
HasPunct(word) == \E k \in 1..Len(word) : word[k] \in {".", "?", "!"}

\* subtitle.py:161-164: the segment of one line
LineSegment(ws, time_offset) ==
  [start |-> ws[1].start + time_offset,
   end |-> ws[Len(ws)].end + time_offset,
   text |-> JoinWords(ws)]

\* (LineLoopNoBreak: a faulty line loop that closes a line that is too long
\* with the word that made it too long)
RECURSIVE LineLoopNoBreak(_, _, _, _, _, _)
LineLoopNoBreak(cfg, words, time_offset, i, current_line_words, initial_segments) ==
  IF i > Len(words) THEN initial_segments
  ELSE
    LET line == Append(current_line_words, words[i])
    IN IF i = Len(words) \/ HasPunct(words[i].word)
          \/ Len(JoinWords(line)) > cfg.max_chars_per_line
       THEN LineLoopNoBreak(cfg, words, time_offset, i + 1, <<>>,
                            Append(initial_segments,
                                   LineSegment(line, time_offset)))
       ELSE LineLoopNoBreak(cfg, words, time_offset, i + 1, line,
                            initial_segments)

\* subtitle.py:141-164: the line loop from word i on, with the words of the
\* current line and the segments emitted so far.  Words still in the
\* current line when the loop ends are not emitted.
RECURSIVE LineLoop(_, _, _, _, _, _)
LineLoop(cfg, words, time_offset, i, current_line_words, initial_segments) ==
  IF i > Len(words) THEN initial_segments
  ELSE
    LET line == Append(current_line_words, words[i])
        is_last == (i = Len(words))
        has_punct == HasPunct(words[i].word)
        too_long == Len(JoinWords(line)) > cfg.max_chars_per_line
    IN IF is_last \/ has_punct \/ too_long
       THEN LET break_before == too_long /\ Len(line) > 1
                segment_words == IF break_before
                                 THEN SubSeq(line, 1, Len(line) - 1) ELSE line
                rest == IF break_before THEN <<words[i]>> ELSE <<>>
            IN LineLoop(cfg, words, time_offset, i + 1, rest,
                        IF segment_words = <<>> THEN initial_segments
                        ELSE Append(initial_segments,
                                    LineSegment(segment_words, time_offset)))
       ELSE LineLoop(cfg, words, time_offset, i + 1, line, initial_segments)

\* subtitle.py:195: text.rfind(' ', 0, limit), as a 1-based position, 0 for
\* not found
RFindSpace(text, limit) ==
  LET hits == {k \in 1..Min2(limit, Len(text)) : text[k] = " "}
  IN IF hits = {} THEN 0 ELSE CHOOSE k \in hits : \A j \in hits : j <= k

\* subtitle.py:194-197: the forced line break
SplitLong(cfg, text) ==
  IF Len(text) > cfg.max_chars_per_line
  THEN LET sp == RFindSpace(text, cfg.max_chars_per_line)
       IN IF sp # 0
          THEN SubSeq(text, 1, sp - 1) \o <<"\\", "N">>
               \o SubSeq(text, sp + 1, Len(text))
          ELSE text
  ELSE text

\* subtitle.py:173-181: padding, then the duration clamp on the end time
\* (PaddedStartUnclamped: a faulty padding that does not stop at 0)
PaddedStartUnclamped(cfg, seg) == seg.start - cfg.padding_s
PaddedStart(cfg, seg) == Max2(0, seg.start - cfg.padding_s)
\* (ClampedEndNoMaximum: a faulty clamp without the upper limit)
ClampedEndNoMaximum(cfg, seg) ==
  LET start == Max2(0, seg.start - cfg.padding_s)
      end == seg.end + cfg.padding_s
  IN IF end - start < cfg.min_duration_s THEN start + cfg.min_duration_s
     ELSE end
ClampedEnd(cfg, seg) ==
  LET start == PaddedStart(cfg, seg)
      end == seg.end + cfg.padding_s
      duration == end - start
  IN IF duration < cfg.min_duration_s THEN start + cfg.min_duration_s
     ELSE IF duration > cfg.max_duration_s THEN start + cfg.max_duration_s
     ELSE end

\* subtitle.py:184-187: the minimum gap from the previous accepted segment
\* (GapStartAtPreviousEnd: a faulty gap rule that moves the start to the
\* previous end, without the gap)
GapStartAtPreviousEnd(cfg, start, processed) ==
  IF processed # <<>> /\ start < processed[Len(processed)].end + cfg.min_gap_s
  THEN processed[Len(processed)].end
  ELSE start
GapStart(cfg, start, processed) ==
  IF processed # <<>> /\ start < processed[Len(processed)].end + cfg.min_gap_s
  THEN processed[Len(processed)].end + cfg.min_gap_s
  ELSE start

\* subtitle.py:190: the timing of a segment is invalid
\* (TimingInvalidNever: a faulty timing loop that skips nothing)
TimingInvalidNever(start, end) == FALSE
TimingInvalid(start, end) == end <= start

\* subtitle.py:170-201: the timing loop
RECURSIVE TimingLoop(_, _, _, _)
TimingLoop(cfg, initial_segments, i, processed) ==
  IF i > Len(initial_segments) THEN processed
  ELSE
    LET seg == initial_segments[i]
        end == ClampedEnd(cfg, seg)
        start == GapStart(cfg, PaddedStart(cfg, seg), processed)
    IN IF TimingInvalid(start, end)
       THEN TimingLoop(cfg, initial_segments, i + 1, processed)
       ELSE TimingLoop(cfg, initial_segments, i + 1,
                       Append(processed,
                              [start |-> start, end |-> end,
                               text |-> SplitLong(cfg, seg.text)]))

\* subtitle.py:128-201
WordsToSegments(cfg, words, time_offset) ==
  IF words = <<>> THEN <<>>
  ELSE TimingLoop(cfg, LineLoop(cfg, words, time_offset, 1, <<>>, <<>>), 1, <<>>)

-----------------------------------------------------------------------------
(* Subtitle Store: SubtitleWriter.add_segments, _insert_sorted, write *)

\* subtitle.py:29-31
\* (OverlapsAnother: a faulty overlaps that takes a segment with the same
\* times for not overlapping)
OverlapsAnother(a, b) ==
  /\ <<a.start, a.end>> # <<b.start, b.end>>
  /\ ~(a.end + overlap_tolerance < b.start \/ b.end + overlap_tolerance < a.start)
Overlaps(a, b) ==
  ~(a.end + overlap_tolerance < b.start \/ b.end + overlap_tolerance < a.start)

\* subtitle.py:106-109
\* (IsDuplicateNever: a faulty add_segments without the duplicate test)
IsDuplicateNever(segs, seg) == FALSE
IsDuplicate(segs, seg) ==
  \E k \in 1..Len(segs) : Overlaps(segs[k], seg) /\ segs[k].text = seg.text

\* subtitle.py:119-125: the binary search
RECURSIVE Bisect(_, _, _, _)
Bisect(segs, seg, lo, hi) ==
  IF lo < hi
  THEN LET mid == (lo + hi) \div 2
       IN IF segs[mid + 1].start < seg.start
          THEN Bisect(segs, seg, mid + 1, hi)
          ELSE Bisect(segs, seg, lo, mid)
  ELSE lo

\* subtitle.py:116-126
\* (InsertAppend: a faulty _insert_sorted that appends)
InsertAppend(segs, seg) == Append(segs, seg)
InsertSorted(segs, seg) ==
  LET lo == Bisect(segs, seg, 0, Len(segs))
  IN SubSeq(segs, 1, lo) \o <<seg>> \o SubSeq(segs, lo + 1, Len(segs))

\* subtitle.py:102-114: [segments, added] after adding new[i..]
RECURSIVE AddLoop(_, _, _, _)
AddLoop(segs, new, i, added) ==
  IF i > Len(new) THEN [segments |-> segs, added |-> added]
  ELSE IF IsDuplicate(segs, new[i])
       THEN AddLoop(segs, new, i + 1, added)
       ELSE AddLoop(InsertSorted(segs, new[i]), new, i + 1, added + 1)

\* subtitle.py:90-114
AddSegments(segs, new) == AddLoop(segs, new, 1, 0)

\* subtitle.py:74-88
AddWords(cfg, segs, words, time_offset) ==
  IF words = <<>> THEN [segments |-> segs, added |-> 0]
  ELSE AddSegments(segs, WordsToSegments(cfg, words, time_offset))

\* subtitle.py:281-289: H:MM:SS.cc as <<h, m, s, cc>>; the string is these
\* four numbers printed with fixed widths for m, s and cc
\* (FormatTimeUnwrapped: a faulty _format_time whose minutes do not wrap at 60)
FormatTimeUnwrapped(ms) ==
  LET total == ms \div 1000
  IN <<total \div 3600, total \div 60, total % 60, (ms % 1000) \div 10>>
FormatTime(ms) ==
  LET centiseconds == (ms % 1000) \div 10
      total == ms \div 1000
  IN <<total \div 3600, (total \div 60) % 60, total % 60, centiseconds>>

\* the decimal digits of a number, as str() and the format specs print them
DigitChars == <<"0", "1", "2", "3", "4", "5", "6", "7", "8", "9">>
RECURSIVE Digits(_)
Digits(n) ==
  IF n < 10 THEN <<DigitChars[n + 1]>>
  ELSE Digits(n \div 10) \o <<DigitChars[(n % 10) + 1]>>
\* the format spec 02d
TwoDigits(n) == IF n < 10 THEN <<"0", DigitChars[n + 1]>> ELSE Digits(n)

\* subtitle.py:289: f"{h}:{m:02d}:{s:02d}.{centiseconds:02d}"
TimeText(t) ==
  Digits(t[1]) \o <<":">> \o TwoDigits(t[2]) \o <<":">> \o TwoDigits(t[3])
  \o <<".">> \o TwoDigits(t[4])

\* subtitle.py:209: the text of a Dialogue line with the fields `line`
CueText(line) ==
  <<"D", "i", "a", "l", "o", "g", "u", "e", ":", " ", "0", ",">>
  \o TimeText(line[1]) \o <<",">> \o TimeText(line[2])
  \o <<",", "D", "e", "f", "a", "u", "l", "t", ",", ",", "0", ",", "0", ",",
       "0", ",", ",">>
  \o line[3]

\* subtitle.py:208-211: the Dialogue lines of the segments, as their fields
\* (DialogueLinesNewest: a faulty write() that puts out the latest segment
\* only)
DialogueLinesNewest(segs) ==
  [k \in 1..Min2(1, Len(segs)) |->
     <<FormatTime(segs[Len(segs)].start), FormatTime(segs[Len(segs)].end),
       segs[Len(segs)].text>>]
DialogueLines(segs) ==
  [k \in 1..Len(segs) |->
     <<FormatTime(segs[k].start), FormatTime(segs[k].end), segs[k].text>>]

\* subtitle.py:216-232: the target file after write() ends with `outcome`.
\* The content goes to output_path + ".tmp"; only os.replace touches the
\* target, and it replaces it in one step.
\* (FileAfterWriteInPlace: a faulty write() that writes into the target itself)
FileAfterWriteInPlace(file, lines, outcome) ==
  IF outcome \in {"ok", "callback_raised"}
  THEN [state |-> "complete", lines |-> lines]
  ELSE [state |-> "partial", lines |-> <<>>]
FileAfterWrite(file, lines, outcome) ==
  IF outcome \in {"ok", "callback_raised"}
  THEN [state |-> "complete", lines |-> lines]
  ELSE file

\* subtitle.py:222-223: whether write() reaches the on_update call
\* (CallbackInvokedAlways: a faulty write() that calls on_update in any case)
CallbackInvokedAlways(outcome) == TRUE
CallbackInvoked(outcome) == outcome \in {"ok", "callback_raised"}

\* subtitle.py:225-232, engine.py:289-292: whether write() raised (the engine
\* logs it and goes on)
WriteFailed(outcome) == outcome # "ok"

-----------------------------------------------------------------------------
(* What the transcription backend may return for a chunk, chunk-local ms *)

WordsHello ==
  <<[word |-> <<"H", "e", "l", "l", "o">>, start |-> 0, end |-> 400],
    [word |-> <<"w", "o", "r", "l", "d", ".">>, start |-> 500, end |-> 900]>>

\* one word at the very end of a chunk, and the same word at the very start
\* of the next one: their padded ranges overlap across the chunk boundary
WordsTail == <<[word |-> <<"H", "i", ".">>, start |-> 59800, end |-> 59950]>>
WordsHead == <<[word |-> <<"H", "i", ".">>, start |-> 0, end |-> 300]>>

-----------------------------------------------------------------------------
(* State *)

VARIABLES
  \* constructor arguments
  duration,          \* seconds
  backend,           \* the word lists transcribe() may return
  io_faults,         \* whether opening or writing a file may fail
  on_progress,       \* whether a progress callback was given
  \* the player
  player_times,      \* the positions it reports
  updates_left,      \* process_time_update calls still to come; -1: no limit
  \* TranscriptionEngine
  stop_event, finished_event, rewrite_needed,
  task_queue,        \* the entries of self._task_queue
  queued_chunks, processed_chunks, last_known_time, idle_pointer,
  \* AudioExtractor
  extraction,        \* "idle", "running", "ready" (file handle open), "failed"
  audio_closed,      \* close() was called
  \* SubtitleWriter and the target file
  segments,
  file,              \* [state: "absent" | "partial" | "complete", lines]
  \* control thread: start() and stop()
  start_pc,          \* "new", "init_open", "init_write", "spawn", "running", "failed"
  stop_pc,           \* "idle", "set", "cleared", "closed" (stop() returned)
  \* player thread: process_time_update
  tu_off,            \* the offset of range(-1, 4) to queue next; 4: not in a call
  \* worker thread
  w_pc, w_entry, w_stale, w_words, w_added,
  \* writer thread
  wr_pc, first_write, wr_final, wr_lines,
  \* a direct call of add_segments or _words_to_segments
  call_args,         \* its arguments
  call_result,       \* what it returned
  \* history, read by no action
  seek_effect,       \* what _clear_queue did, until the next _queue_chunk call
  w_outcome,         \* how the last _process_chunk call ended
  last_write,        \* the outcome of the last write() call
  updates,           \* number of on_update calls
  init_ok,           \* initialize() wrote the header
  write_failed,      \* some write() call raised
  progress,          \* the (completed, total) pairs on_progress was called
                     \* with, in the order of the calls
  put_order,         \* the entries of the queue object, in the order of
                     \* their put() calls
  \* the locks, for the specification that follows every acquire and release
  lock_owner,        \* the thread that holds _queue_lock and the store's _lock
  lk_pc              \* where each thread is between its lock operations

inputVars == <<duration, backend, io_faults, player_times, on_progress>>
eventVars == <<stop_event, finished_event, rewrite_needed>>
schedVars == <<task_queue, queued_chunks, processed_chunks, last_known_time,
               idle_pointer>>
audioVars == <<extraction, audio_closed>>
storeVars == <<segments, file>>
controlVars == <<start_pc, stop_pc>>
workerVars == <<w_pc, w_entry, w_stale, w_words, w_added>>
writerVars == <<wr_pc, first_write, wr_final, wr_lines>>
callVars == <<call_args, call_result>>
lockVars == <<lock_owner, lk_pc>>
histVars == <<seek_effect, w_outcome, last_write, updates, init_ok,
              write_failed, progress>>

vars == <<inputVars, updates_left, eventVars, schedVars, audioVars, storeVars,
          controlVars, tu_off, workerVars, writerVars, callVars, histVars,
          put_order, lockVars>>

total_chunks == TotalChunks(duration)
ChunkStarts == {ChunkStart(i) : i \in 0..(total_chunks - 1)}
NoEntry == <<0, <<0, 0, 0>>, "none">>
NoFile == [state |-> "absent", lines |-> <<>>]
NoCall == <<>>

\* engine.py:90, subtitle.py:61: the scheduler lock and the store lock
Locks == {"queue", "store"}
\* the threads that take them: the worker (engine.py:194), the writer
\* (engine.py:220), the player's observer thread (service.py:218) and the
\* thread that calls stop() (service.py:94)
Threads == {"worker", "writer", "player", "control"}

\* TranscriptionEngine.__init__ (engine.py:58-100), for a given duration,
\* backend, file system (one that may fail, or not) and progress callback
\* (given, or None)
InitEngine(d, b, faults, times, budget, cb) ==
  /\ duration = d
  /\ backend = b
  /\ io_faults = faults
  /\ on_progress = cb
  /\ player_times = times
  /\ updates_left = budget
  /\ stop_event = FALSE /\ finished_event = FALSE /\ rewrite_needed = FALSE
  /\ task_queue = {}
  /\ queued_chunks = {} /\ processed_chunks = {}
  /\ last_known_time = 0 /\ idle_pointer = 0
  /\ extraction = "idle" /\ audio_closed = FALSE
  /\ segments = <<>>
  /\ file = NoFile
  /\ start_pc = "new" /\ stop_pc = "idle"
  /\ tu_off = 4
  /\ w_pc = "off" /\ w_entry = NoEntry /\ w_stale = FALSE
  /\ w_words = <<>> /\ w_added = FALSE
  /\ wr_pc = "off" /\ first_write = TRUE /\ wr_final = FALSE /\ wr_lines = <<>>
  /\ call_args = NoCall /\ call_result = NoCall
  /\ seek_effect = "none"
  /\ w_outcome = "none"
  /\ last_write = "none"
  /\ updates = 0
  /\ init_ok = FALSE
  /\ write_failed = FALSE
  /\ progress = <<>>
  /\ put_order = <<>>
  /\ lock_owner = [l \in Locks |-> "free"]
  /\ lk_pc = [t \in Threads |-> "begin"]

\* the same without a progress callback (engine.py:43: the default)
InitWith(d, b, faults, times, budget) ==
  InitEngine(d, b, faults, times, budget, FALSE)

-----------------------------------------------------------------------------
(* Control thread: TranscriptionEngine.start *)

\* engine.py:122-126, audio.py:67-78: extract_streaming creates the temp
\* file (mkstemp may raise: start() raises) and starts the extraction
\* thread; a failure of the extraction itself happens on that thread
StartExtract ==
  /\ start_pc = "new"
  /\ \/ start_pc' = "init_open" /\ extraction' = "running"
     \/ start_pc' = "failed" /\ UNCHANGED extraction
  /\ UNCHANGED <<inputVars, lockVars, callVars, put_order, updates_left, eventVars, schedVars, audio_closed, storeVars,
                 stop_pc, tu_off, workerVars, writerVars, histVars>>

\* subtitle.py:238: initialize() opens the target itself with mode 'w',
\* which truncates it; an IOError is logged and start() goes on
InitOpen ==
  /\ start_pc = "init_open"
  /\ \/ start_pc' = "init_write" /\ file' = [state |-> "partial", lines |-> <<>>]
     \/ io_faults /\ start_pc' = "spawn" /\ UNCHANGED file
  /\ UNCHANGED <<inputVars, lockVars, callVars, put_order, updates_left, eventVars, schedVars, audioVars, segments,
                 stop_pc, tu_off, workerVars, writerVars, histVars>>

\* subtitle.py:239-242: the header is written into the opened target
InitWrite ==
  /\ start_pc = "init_write"
  /\ start_pc' = "spawn"
  /\ \/ file' = [state |-> "complete", lines |-> <<>>] /\ init_ok' = TRUE
     \/ io_faults /\ UNCHANGED <<file, init_ok>>
  /\ UNCHANGED <<inputVars, lockVars, callVars, put_order, updates_left, eventVars, schedVars, audioVars, segments,
                 stop_pc, tu_off, workerVars, writerVars, seek_effect,
                 w_outcome, last_write, updates, write_failed, progress>>

\* engine.py:132-144: the worker and writer threads start
SpawnThreads ==
  /\ start_pc = "spawn"
  /\ start_pc' = "running"
  /\ w_pc' = "loop"
  /\ wr_pc' = "loop"
  /\ UNCHANGED <<inputVars, lockVars, callVars, put_order, updates_left, eventVars, schedVars, audioVars, storeVars,
                 stop_pc, tu_off, w_entry, w_stale, w_words, w_added,
                 first_write, wr_final, wr_lines, histVars>>

-----------------------------------------------------------------------------
(* Extraction thread: AudioExtractor._streaming_extraction_worker *)

\* audio.py:93-95, 101: ffmpeg ended with code 0 and the temp file is open
ExtractionDone ==
  /\ extraction = "running"
  /\ ~audio_closed
  /\ extraction' = "ready"
  /\ UNCHANGED <<inputVars, lockVars, callVars, put_order, updates_left, eventVars, schedVars, audio_closed, storeVars,
                 controlVars, tu_off, workerVars, writerVars, histVars>>

\* audio.py:96-101: ffmpeg failed, timed out, or the temp file cannot be
\* opened; the error is stored in _extraction_error
ExtractionFailed ==
  /\ extraction = "running"
  /\ extraction' = "failed"
  /\ UNCHANGED <<inputVars, lockVars, callVars, put_order, updates_left, eventVars, schedVars, audio_closed, storeVars,
                 controlVars, tu_off, workerVars, writerVars, histVars>>

-----------------------------------------------------------------------------
(* Control thread: TranscriptionEngine.stop *)

\* engine.py:149
StopSet ==
  /\ stop_pc = "idle"
  /\ start_pc \in {"running", "failed"}
  /\ stop_pc' = "set"
  /\ stop_event' = TRUE
  /\ UNCHANGED <<inputVars, lockVars, callVars, put_order, updates_left, finished_event, rewrite_needed, schedVars,
                 audioVars, storeVars, start_pc, tu_off, workerVars,
                 writerVars, histVars>>

\* engine.py:152-157: under the lock a new queue object replaces the old
\* one (a worker blocked in get() keeps waiting on the old object) and the
\* queued marks are cleared; then the rewrite signal is set for the final
\* flush
StopClear ==
  /\ stop_pc = "set"
  /\ stop_pc' = "cleared"
  /\ task_queue' = {}
  /\ queued_chunks' = {}
  /\ w_stale' = (w_stale \/ w_pc = "get")
  /\ rewrite_needed' = TRUE
  /\ put_order' = <<>>
  /\ UNCHANGED <<inputVars, lockVars, callVars, updates_left, stop_event, finished_event, processed_chunks,
                 last_known_time, idle_pointer, audioVars, storeVars,
                 start_pc, tu_off, w_pc, w_entry, w_words, w_added,
                 writerVars, histVars>>

\* engine.py:160-168: both threads are joined with a 2 s timeout each, so
\* close() may run while they are still running; then stop() returns
StopClose ==
  /\ stop_pc = "cleared"
  /\ stop_pc' = "closed"
  /\ audio_closed' = TRUE
  /\ UNCHANGED <<inputVars, lockVars, callVars, put_order, updates_left, eventVars, schedVars, extraction, storeVars,
                 start_pc, tu_off, workerVars, writerVars, histVars>>

-----------------------------------------------------------------------------
(* Player thread: TranscriptionEngine.process_time_update *)

\* engine.py:189-191: the first offset >= off of range(-1, 4) whose chunk
\* index is in [0, total_chunks); 4 when there is none
\* (NextOffsetAhead: a faulty loop over range(0, 4), without the chunk behind
\* the position)
NextOffsetAhead(t, off) ==
  LET ok == {o \in Max2(off, 0)..3 :
               CurrentChunk(t) + o >= 0 /\ CurrentChunk(t) + o < total_chunks}
  IN IF ok = {} THEN 4 ELSE CHOOSE o \in ok : \A p \in ok : o <= p
NextOffset(t, off) ==
  LET ok == {o \in off..3 :
               CurrentChunk(t) + o >= 0 /\ CurrentChunk(t) + o < total_chunks}
  IN IF ok = {} THEN 4 ELSE CHOOSE o \in ok : \A p \in ok : o <= p

\* history: whether a _clear_queue call dropped entries, kept entries, both
\* or neither
SeekEffect(before, after) ==
  IF before \ after # {} /\ after # {} THEN "dropped_and_kept"
  ELSE IF before \ after # {} THEN "dropped"
  ELSE IF after # {} THEN "kept"
  ELSE "cleared_empty"

\* engine.py:176-185: when the time is a large seek, _clear_queue runs under
\* the lock.  The service hands time updates to an engine from the return of
\* start() to the return of stop() (service.py:104-107, 159-162, 178-189,
\* 218-225).
TimeUpdateBegin(t) ==
  /\ start_pc = "running"
  /\ stop_pc # "closed"
  /\ tu_off = 4
  /\ updates_left # 0
  /\ updates_left' = IF updates_left > 0 THEN updates_left - 1 ELSE updates_left
  /\ ~finished_event
  /\ IF IsSeek(t, last_known_time)
     THEN /\ task_queue' = ClearedQueue(task_queue)
          /\ queued_chunks' = ClearedQueued(task_queue)
          /\ seek_effect' = SeekEffect(task_queue, ClearedQueue(task_queue))
          /\ w_stale' = (w_stale \/ w_pc = "get")
          /\ put_order' = PutOrderOf(ClearedQueue(task_queue))
     ELSE /\ UNCHANGED <<task_queue, queued_chunks, w_stale, put_order>>
          /\ seek_effect' = "none"
  /\ last_known_time' = t
  /\ tu_off' = NextOffset(t, -1)
  /\ UNCHANGED <<inputVars, lockVars, callVars, eventVars, processed_chunks, idle_pointer,
                 audioVars, storeVars, controlVars, w_pc, w_entry, w_words,
                 w_added, writerVars, w_outcome, last_write, updates,
                 init_ok, write_failed, progress>>

\* engine.py:294-307: _queue_chunk for the chunk at the current offset
QueueChunk ==
  /\ tu_off < 4
  /\ LET idx == CurrentChunk(last_known_time) + tu_off
         task == ChunkTask(idx, duration)
     IN IF task[1] \in processed_chunks \/ task[1] \in queued_chunks
        THEN UNCHANGED <<task_queue, queued_chunks, put_order>>
        ELSE /\ queued_chunks' = queued_chunks \cup {task[1]}
             /\ task_queue' = task_queue \cup
                  {<<ActivePriority(task[1], last_known_time), task, "active">>}
             /\ put_order' = Append(put_order,
                  <<ActivePriority(task[1], last_known_time), task, "active">>)
  /\ tu_off' = NextOffset(last_known_time, tu_off + 1)
  /\ seek_effect' = "none"
  /\ UNCHANGED <<inputVars, lockVars, callVars, updates_left, eventVars, processed_chunks, last_known_time,
                 idle_pointer, audioVars, storeVars, controlVars, workerVars,
                 writerVars, w_outcome, last_write, updates, init_ok,
                 write_failed, progress>>

-----------------------------------------------------------------------------
(* Worker thread: TranscriptionEngine._worker, _process_chunk,              *)
(* _queue_idle_chunk                                                        *)

\* engine.py:247-285: where _process_chunk goes when the try block ends with
\* `outcome`: every return and every exception runs the finally block, and
\* `except Exception` keeps the exception from leaving _process_chunk
\* (AfterChunkPropagates: a faulty _process_chunk without the except clause)
AfterChunkPropagates(outcome) ==
  IF outcome \in {"audio_raised", "backend_raised"} THEN "crashed" ELSE "finally"
AfterChunk(outcome) == "finally"

\* audio.py:210-252: what read_chunk does for a task
ReadOutcomes(task) ==
  IF ~(extraction = "ready" /\ ~audio_closed)
  THEN IF extraction = "failed" THEN {"audio_raised"} ELSE {"no_audio"}
  ELSE IF task[2] - task[1] <= 0 THEN {"no_audio"}
  ELSE {"data", "no_audio"}

\* engine.py:312-325: the index _queue_idle_chunk admits, total_chunks when
\* it finds none
\* (IdleScanIgnoresQueued: a faulty scan that tests the processed set only)
IdleScanIgnoresQueued ==
  LET free == {i \in idle_pointer..(total_chunks - 1) :
                 ChunkStart(i) \notin processed_chunks}
  IN IF free = {} THEN total_chunks ELSE CHOOSE i \in free : \A j \in free : i <= j
IdleScan ==
  LET free == {i \in idle_pointer..(total_chunks - 1) :
                 ChunkStart(i) \notin processed_chunks
                 /\ ChunkStart(i) \notin queued_chunks}
  IN IF free = {} THEN total_chunks ELSE CHOOSE i \in free : \A j \in free : i <= j

\* engine.py:198-201: the loop condition and the "done" check.  The task of
\* the previous iteration and how it ended (w_entry, w_outcome) are
\* forgotten here.
WorkerLoop ==
  /\ w_pc = "loop"
  /\ IF stop_event THEN w_pc' = "exit" /\ UNCHANGED w_stale
     ELSE IF Cardinality(processed_chunks) >= total_chunks /\ task_queue = {}
     THEN w_pc' = "exit" /\ UNCHANGED w_stale
     ELSE w_pc' = "get" /\ w_stale' = FALSE
  /\ w_entry' = NoEntry
  /\ w_outcome' = "none"
  /\ UNCHANGED <<inputVars, lockVars, callVars, put_order, updates_left, eventVars, schedVars, audioVars, storeVars,
                 controlVars, tu_off, w_words, w_added, writerVars,
                 seek_effect, last_write, updates, init_ok, write_failed, progress>>

\* engine.py:204-207: get() returns the least entry of the queue object the
\* worker waits on
WorkerGet ==
  /\ w_pc = "get"
  /\ ~w_stale
  /\ task_queue # {}
  /\ LET e == QueueMin(task_queue)
     IN /\ task_queue' = task_queue \ {e}
        /\ put_order' = SelectSeq(put_order, LAMBDA f : f # e)
        /\ IF stop_event
           THEN w_pc' = "exit" /\ UNCHANGED w_entry
           ELSE w_pc' = "read" /\ w_entry' = e
  /\ UNCHANGED <<inputVars, lockVars, callVars, updates_left, eventVars, queued_chunks, processed_chunks,
                 last_known_time, idle_pointer, audioVars, storeVars,
                 controlVars, tu_off, w_stale, w_words, w_added, writerVars,
                 histVars>>

\* engine.py:208-211: get() timed out: nothing arrived in the queue object
\* the worker waits on (the object it waits on may have been replaced)
WorkerTimeout ==
  /\ w_pc = "get"
  /\ w_stale \/ task_queue = {}
  /\ w_pc' = IF Cardinality(processed_chunks) >= total_chunks
             THEN "exit" ELSE "idle"
  /\ UNCHANGED <<inputVars, lockVars, callVars, put_order, updates_left, eventVars, schedVars, audioVars, storeVars,
                 controlVars, tu_off, w_entry, w_stale, w_words, w_added,
                 writerVars, histVars>>

\* engine.py:212, 309-325: _queue_idle_chunk under the lock
WorkerIdle ==
  /\ w_pc = "idle"
  /\ w_pc' = "loop"
  /\ LET i == IdleScan
     IN IF i < total_chunks
        THEN /\ queued_chunks' = queued_chunks \cup {ChunkStart(i)}
             /\ task_queue' = task_queue \cup
                  {<<IdlePriority(i), ChunkTask(i, duration), "idle">>}
             /\ put_order' = Append(put_order,
                  <<IdlePriority(i), ChunkTask(i, duration), "idle">>)
             /\ idle_pointer' = i + 1
        ELSE /\ idle_pointer' = Max2(idle_pointer, total_chunks)
             /\ UNCHANGED <<task_queue, queued_chunks, put_order>>
  /\ UNCHANGED <<inputVars, lockVars, callVars, updates_left, eventVars, processed_chunks, last_known_time,
                 audioVars, storeVars, controlVars, tu_off, w_entry, w_stale,
                 w_words, w_added, writerVars, histVars>>

\* engine.py:249-252: read_chunk
WorkerRead ==
  /\ w_pc = "read"
  /\ \E r \in ReadOutcomes(w_entry[2]) :
       IF r = "data"
       THEN w_pc' = "transcribe" /\ UNCHANGED w_outcome
       ELSE w_pc' = AfterChunk(r) /\ w_outcome' = r
  /\ UNCHANGED <<inputVars, lockVars, callVars, put_order, updates_left, eventVars, schedVars, audioVars, storeVars,
                 controlVars, tu_off, w_entry, w_stale, w_words, w_added,
                 writerVars, seek_effect, last_write, updates, init_ok,
                 write_failed, progress>>

\* engine.py:255-262: transcribe returns or raises; then the stop check and
\* the is_empty check
WorkerTranscribe ==
  /\ w_pc = "transcribe"
  /\ \/ /\ w_outcome' = "backend_raised"
        /\ w_pc' = AfterChunk("backend_raised")
        /\ UNCHANGED w_words
     \/ /\ stop_event
        /\ w_outcome' = "stopped"
        /\ w_pc' = AfterChunk("stopped")
        /\ UNCHANGED w_words
     \/ /\ ~stop_event
        /\ w_outcome' = "no_words"
        /\ w_pc' = AfterChunk("no_words")
        /\ UNCHANGED w_words
     \/ /\ ~stop_event
        /\ \E w \in backend : w_words' = w
        /\ w_pc' = "add"
        /\ UNCHANGED w_outcome
  /\ UNCHANGED <<inputVars, lockVars, callVars, put_order, updates_left, eventVars, schedVars, audioVars, storeVars,
                 controlVars, tu_off, w_entry, w_stale, w_added, writerVars,
                 seek_effect, last_write, updates, init_ok, write_failed, progress>>

\* engine.py:265: add_words under the store lock; time_offset is the chunk
\* start in seconds
WorkerAdd ==
  /\ w_pc = "add"
  /\ LET r == AddWords(DefaultSubtitleConfig, segments, w_words,
                       1000 * w_entry[2][1])
     IN segments' = r.segments /\ w_added' = (r.added > 0)
  /\ w_pc' = "signal"
  /\ UNCHANGED <<inputVars, lockVars, callVars, put_order, updates_left, eventVars, schedVars, audioVars, file,
                 controlVars, tu_off, w_entry, w_stale, w_words, writerVars,
                 histVars>>

\* engine.py:273-274: the arguments of the progress callback; the size of
\* the processed set is read without the lock, by the only thread that adds
\* to it
ProgressArgs == <<Cardinality(processed_chunks) + 1, total_chunks>>

\* engine.py:267-274: the rewrite signal when something was added, then the
\* progress callback when one was given (an exception of the callback is
\* caught at line 276)
WorkerSignal ==
  /\ w_pc = "signal"
  /\ rewrite_needed' = (rewrite_needed \/ w_added)
  /\ progress' = IF on_progress THEN Append(progress, ProgressArgs)
                 ELSE progress
  /\ w_outcome' = "success"
  /\ w_pc' = AfterChunk("success")
  /\ UNCHANGED <<inputVars, lockVars, callVars, put_order, updates_left, stop_event, finished_event, schedVars, audioVars,
                 storeVars, controlVars, tu_off, w_entry, w_stale, w_words,
                 w_added, writerVars, seek_effect, last_write, updates,
                 init_ok, write_failed>>

\* engine.py:278-285: the finally block
WorkerFinally ==
  /\ w_pc = "finally"
  /\ queued_chunks' = FinallyQueued(queued_chunks, w_entry[2][1])
  /\ processed_chunks' = processed_chunks \cup {w_entry[2][1]}
  /\ w_pc' = "loop"
  /\ w_words' = <<>> /\ w_added' = FALSE
  /\ UNCHANGED <<inputVars, lockVars, callVars, put_order, updates_left, eventVars, task_queue, last_known_time,
                 idle_pointer, audioVars, storeVars, controlVars, tu_off,
                 w_entry, w_stale, writerVars, histVars>>

\* engine.py:214-218
\* (WorkerExitMarksFinished: a faulty worker that marks the engine finished
\* whenever its loop ends)
WorkerExitMarksFinished ==
  /\ w_pc = "exit"
  /\ w_pc' = "done"
  /\ finished_event' = TRUE
  /\ UNCHANGED <<inputVars, lockVars, callVars, put_order, updates_left, stop_event, rewrite_needed, schedVars, audioVars,
                 storeVars, controlVars, tu_off, w_entry, w_stale, w_words,
                 w_added, writerVars, histVars>>
WorkerExit ==
  /\ w_pc = "exit"
  /\ w_pc' = "done"
  /\ finished_event' = (finished_event \/ ~stop_event)
  /\ UNCHANGED <<inputVars, lockVars, callVars, put_order, updates_left, stop_event, rewrite_needed, schedVars, audioVars,
                 storeVars, controlVars, tu_off, w_entry, w_stale, w_words,
                 w_added, writerVars, histVars>>

-----------------------------------------------------------------------------
(* Writer thread: TranscriptionEngine._writer_worker, SubtitleWriter.write *)

\* engine.py:225
WriterLoop ==
  /\ wr_pc = "loop"
  /\ wr_pc' = IF stop_event THEN "final" ELSE "wait"
  /\ UNCHANGED <<inputVars, lockVars, callVars, put_order, updates_left, eventVars, schedVars, audioVars, storeVars,
                 controlVars, tu_off, workerVars, first_write, wr_final,
                 wr_lines, histVars>>

\* engine.py:226-231: wait(timeout=1.0) returns True and the signal is
\* cleared, or it times out
\* (WriterWaitNoThrottle: a faulty writer that never sleeps before a write)
WriterWaitNoThrottle ==
  /\ wr_pc = "wait"
  /\ IF rewrite_needed
     THEN /\ rewrite_needed' = FALSE
          /\ wr_pc' = "snapshot"
     ELSE /\ wr_pc' = "loop"
          /\ UNCHANGED rewrite_needed
  /\ UNCHANGED <<inputVars, lockVars, callVars, put_order, updates_left, stop_event, finished_event, schedVars, audioVars,
                 storeVars, controlVars, tu_off, workerVars, first_write,
                 wr_final, wr_lines, histVars>>
WriterWait ==
  /\ wr_pc = "wait"
  /\ IF rewrite_needed
     THEN /\ rewrite_needed' = FALSE
          /\ wr_pc' = IF first_write THEN "snapshot" ELSE "sleep"
     ELSE /\ wr_pc' = "loop"
          /\ UNCHANGED rewrite_needed
  /\ UNCHANGED <<inputVars, lockVars, callVars, put_order, updates_left, stop_event, finished_event, schedVars, audioVars,
                 storeVars, controlVars, tu_off, workerVars, first_write,
                 wr_final, wr_lines, histVars>>

\* engine.py:231: time.sleep(rewrite_throttle_seconds)
WriterSleep ==
  /\ wr_pc = "sleep"
  /\ wr_pc' = "snapshot"
  /\ UNCHANGED <<inputVars, lockVars, callVars, put_order, updates_left, eventVars, schedVars, audioVars, storeVars,
                 controlVars, tu_off, workerVars, first_write, wr_final,
                 wr_lines, histVars>>

\* subtitle.py:205-213: the lines are built under the store lock
WriterSnapshot ==
  /\ wr_pc = "snapshot"
  /\ wr_lines' = DialogueLines(segments)
  /\ wr_pc' = "commit"
  /\ UNCHANGED <<inputVars, lockVars, callVars, put_order, updates_left, eventVars, schedVars, audioVars, storeVars,
                 controlVars, tu_off, workerVars, first_write, wr_final,
                 histVars>>

\* subtitle.py:216-232: how write() may end after it has built its lines
WriteOutcomes ==
  {"ok", "callback_raised"} \cup
  (IF io_faults THEN {"tmp_failed", "replace_failed"} ELSE {})

\* subtitle.py:216-232, engine.py:234, 287-292: the temp file is written and
\* renamed over the target, then on_update is called; any exception is
\* logged by _write_subtitles and the writer goes on
\* (WriterCommitThenClear: a faulty writer that clears the rewrite signal
\* after the write instead of before the sleep)
WriterCommitThenClear ==
  /\ wr_pc = "commit"
  /\ \E outcome \in WriteOutcomes :
       /\ file' = FileAfterWrite(file, wr_lines, outcome)
       /\ updates' = IF CallbackInvoked(outcome) THEN updates + 1 ELSE updates
       /\ last_write' = outcome
       /\ write_failed' = (write_failed \/ WriteFailed(outcome))
  /\ wr_pc' = IF wr_final THEN "done" ELSE "loop"
  /\ first_write' = (first_write /\ wr_final)
  /\ wr_lines' = <<>>
  /\ rewrite_needed' = FALSE
  /\ UNCHANGED <<inputVars, lockVars, callVars, put_order, updates_left, stop_event, finished_event, schedVars, audioVars, segments,
                 controlVars, tu_off, workerVars, wr_final, seek_effect,
                 w_outcome, init_ok, progress>>
WriterCommit ==
  /\ wr_pc = "commit"
  /\ \E outcome \in WriteOutcomes :
       /\ file' = FileAfterWrite(file, wr_lines, outcome)
       /\ updates' = IF CallbackInvoked(outcome) THEN updates + 1 ELSE updates
       /\ last_write' = outcome
       /\ write_failed' = (write_failed \/ WriteFailed(outcome))
  /\ wr_pc' = IF wr_final THEN "done" ELSE "loop"
  /\ first_write' = (first_write /\ wr_final)
  /\ wr_lines' = <<>>
  /\ UNCHANGED <<inputVars, lockVars, callVars, put_order, updates_left, eventVars, schedVars, audioVars, segments,
                 controlVars, tu_off, workerVars, wr_final, seek_effect,
                 w_outcome, init_ok, progress>>

\* engine.py:236-239: the final flush
\* (WriterFinalSkipsFlush: a faulty writer that ends without the final flush)
WriterFinalSkipsFlush ==
  /\ wr_pc = "final"
  /\ wr_pc' = "done" /\ UNCHANGED wr_final
  /\ UNCHANGED <<inputVars, lockVars, callVars, put_order, updates_left, eventVars, schedVars, audioVars, storeVars,
                 controlVars, tu_off, workerVars, first_write, wr_lines,
                 histVars>>
WriterFinal ==
  /\ wr_pc = "final"
  /\ IF Len(segments) > 0
     THEN wr_pc' = "snapshot" /\ wr_final' = TRUE
     ELSE wr_pc' = "done" /\ UNCHANGED wr_final
  /\ UNCHANGED <<inputVars, lockVars, callVars, put_order, updates_left, eventVars, schedVars, audioVars, storeVars,
                 controlVars, tu_off, workerVars, first_write, wr_lines,
                 histVars>>

-----------------------------------------------------------------------------
(* Specifications *)

StartNext == StartExtract \/ InitOpen \/ InitWrite \/ SpawnThreads
ExtractionNext == ExtractionDone \/ ExtractionFailed
StopNext == StopSet \/ StopClear \/ StopClose
PlayerNext == (\E t \in player_times : TimeUpdateBegin(t)) \/ QueueChunk
WorkerNext ==
  \/ WorkerLoop \/ WorkerGet \/ WorkerTimeout \/ WorkerIdle \/ WorkerRead
  \/ WorkerTranscribe \/ WorkerAdd \/ WorkerSignal \/ WorkerFinally
  \/ WorkerExit
WriterNext ==
  WriterLoop \/ WriterWait \/ WriterSleep \/ WriterSnapshot \/ WriterCommit
  \/ WriterFinal

\* the whole engine
Init == \E d \in Durations : InitWith(d, {WordsHello}, TRUE, Times, -1)
Next ==
  StartNext \/ ExtractionNext \/ StopNext \/ PlayerNext \/ WorkerNext
  \/ WriterNext
Spec == Init /\ [][Next]_vars

\* the scheduler: every thread but the writer, which reads and writes none
\* of the scheduler's state
SchedInit == \E d \in Durations : InitWith(d, {WordsHello}, FALSE, Times, -1)
SchedNext == StartNext \/ ExtractionNext \/ StopNext \/ PlayerNext \/ WorkerNext
SchedSpec == SchedInit /\ [][SchedNext]_vars

\* the store and the file: every thread but the player; the worker gets its
\* tasks from idle backfill
WriteInit ==
  \E d \in Durations : InitWith(d, {WordsHello, WordsTail, WordsHead}, TRUE, {}, 0)
WriteNext == StartNext \/ ExtractionNext \/ StopNext \/ WorkerNext \/ WriterNext
WriteSpec == WriteInit /\ [][WriteNext]_vars

\* a run that is never stopped and in which the player reports MaxUpdates
\* positions and then no more.  The worker thread keeps running, a started
\* process_time_update call, start() and the extraction thread run to their
\* end.
LiveInit == \E d \in Durations : InitWith(d, {WordsHello}, FALSE, SeekTimes, MaxUpdates)
LiveNext == StartNext \/ ExtractionNext \/ PlayerNext \/ WorkerNext
LiveSpec ==
  /\ LiveInit
  /\ [][LiveNext]_vars
  /\ WF_vars(WorkerNext)
  /\ WF_vars(QueueChunk)
  /\ WF_vars(StartNext)
  /\ WF_vars(ExtractionNext)

-----------------------------------------------------------------------------
(* Properties of the scheduler                                              *)

\* the worker holds a task: it is between get() and the end of the finally
\* block of _process_chunk
Processing == {"read", "transcribe", "add", "signal", "finally"}
InFlight == w_pc \in Processing
\* start time of the task the worker holds
InFlightStart == w_entry[2][1]
AllProcessed == ChunkStarts \subseteq processed_chunks

\* C1: in every reachable state no chunk start time is both in the
\* processed set and in the queued set, whatever the interleaving of time
\* updates, seeks, idle backfill, worker completions and stop().
C1_ProcessedQueuedDisjoint == processed_chunks \cap queued_chunks = {}

\* a seek has just dropped active tasks and kept an idle one while the worker
\* holds a task, some chunk is processed and another one is marked as queued
C1_Witness ==
  /\ seek_effect = "dropped_and_kept"
  /\ InFlight
  /\ processed_chunks # {}
  /\ queued_chunks # {}

\* C2: once start() has returned, in a run that is never stopped and in
\* which the player reports finitely many positions, a worker that keeps
\* running eventually has every chunk in the processed set and the engine
\* finished.
C2_EventuallyAllProcessed ==
  (start_pc = "running") ~> (finished_event /\ AllProcessed)

\* C3: a chunk is handed to the worker at most once: the task the worker
\* holds is not of a processed chunk, and no task in the queue is of a chunk
\* that is processed or that the worker holds.
C3_NoSecondAdmission ==
  /\ InFlight => InFlightStart \notin processed_chunks
  /\ \A e \in task_queue :
       /\ e[2][1] \notin processed_chunks
       /\ ~(InFlight /\ e[2][1] = InFlightStart)

\* C4: the step of a time update that is a seek (the position differs from
\* the last known one by more than the chunk duration) removes every task of
\* active priority from the queue and clears its queued mark, and leaves
\* every task of idle priority in the queue with its mark.
C4_SeekDropsActiveKeepsIdle ==
  [][IsSeek(last_known_time', last_known_time) =>
       \A e \in task_queue :
         IF e[1] < IDLE_PRIORITY_OFFSET
         THEN e \notin task_queue' /\ e[2][1] \notin queued_chunks'
         ELSE e \in task_queue' /\ e[2][1] \in queued_chunks']_vars

\* a seek found both kinds of task in the queue
C4_Witness ==
  /\ seek_effect = "dropped_and_kept"
  /\ \E e \in task_queue : e[3] = "idle" /\ e[2][1] \in queued_chunks

\* C5: every task queued by a time update sorts strictly before every task
\* queued by idle backfill, and the worker never takes an idle task out of a
\* queue that holds an active one.
C5_ActiveBeforeIdle ==
  /\ [](\A e, f \in task_queue :
          e[3] = "active" /\ f[3] = "idle" => e[1] < f[1] /\ EntryLess(e, f))
  /\ [][w_pc = "get" /\ task_queue' # task_queue /\ w_pc' \in {"read", "exit"}
          => \A e \in task_queue \ task_queue' :
               e[3] = "idle" => \A f \in task_queue : f[3] # "active"]_vars

\* the worker took an active task while an idle one was waiting
C5_Witness ==
  /\ w_pc = "read"
  /\ w_entry[3] = "active"
  /\ \E f \in task_queue : f[3] = "idle"

\* C6: whatever happens to a task the worker started (no audio, read_chunk
\* or the backend raises, stop is seen, no words, success), its start time
\* ends in the processed set and outside the queued set, the failure does
\* not leave _process_chunk, and the worker is back at the top of its loop;
\* a start time never leaves the processed set.
C6_AlwaysMarkedProcessed ==
  [][/\ InFlight => w_pc' \in Processing \cup {"loop"}
     /\ InFlight /\ w_pc' = "loop" =>
          /\ InFlightStart \in processed_chunks'
          /\ InFlightStart \notin queued_chunks'
     /\ processed_chunks \subseteq processed_chunks']_vars

\* the backend raised for a task and the worker is back in its loop
C6_Witness ==
  /\ w_pc = "loop"
  /\ w_outcome = "backend_raised"
  /\ InFlightStart \in processed_chunks
  /\ InFlightStart \notin queued_chunks

\* C7: when the extraction of the audio fails, start() reports it: the
\* worker and the writer are not running and the engine does not become
\* finished.
C7_ExtractionFailureStopsStart ==
  extraction = "failed" =>
    /\ w_pc = "off"
    /\ wr_pc = "off"
    /\ ~finished_event

-----------------------------------------------------------------------------
(* Properties of the subtitle file                                          *)

\* the target holds a complete document with a cue line for every segment of
\* the store
FileHoldsStore ==
  \A k \in 1..Len(segments) :
    /\ file.state = "complete"
    /\ \E j \in 1..Len(file.lines) : file.lines[j] = DialogueLines(segments)[k]

\* C8: when stop() has been called and the worker and the writer have both
\* ended, and neither initialize() nor any write() has failed, every segment
\* of the store is in the document the last write left in the target.
C8_NothingLostAfterStop ==
  (stop_event /\ w_pc = "done" /\ wr_pc = "done" /\ init_ok /\ ~write_failed)
    => FileHoldsStore

\* C9 as stated: from start() on the target never shows an incomplete
\* document.
C9_NeverPartial == start_pc # "new" => file.state # "partial"

\* C9: once initialize() has written the header, the target always holds a
\* complete document, and it changes only when a write() replaces it, in
\* one step, by the lines write() built from one snapshot of the store.
C9_CompleteAfterInitialize ==
  /\ [](init_ok => file.state = "complete")
  /\ [][init_ok /\ file' # file =>
          /\ wr_pc = "commit"
          /\ file' = [state |-> "complete", lines |-> wr_lines]]_vars

\* a write failed after another one had replaced the header-only document,
\* and the target still holds that complete document
C9_Witness ==
  /\ init_ok
  /\ last_write = "replace_failed"
  /\ file.state = "complete"
  /\ Len(file.lines) > 0

\* C10 as stated: whenever write() raises, the store is unchanged, the
\* update callback was not invoked for that write, and the writer goes on.
C10_FailedWriteNoCallback ==
  [][wr_pc = "commit" /\ wr_pc' # "commit" /\ WriteFailed(last_write') =>
       /\ segments' = segments
       /\ updates' = updates
       /\ wr_pc' \in {"loop", "done"}]_vars

\* C10: when write() fails to write the temp file or to rename it, the
\* store and the target are unchanged, the update callback is not invoked
\* for that write, and the writer goes on; every write() builds its lines
\* from the whole store, so a write() that succeeds puts a line for every
\* segment the store held when it took its snapshot into the target.
C10_FileFailureNoCallback ==
  [][/\ wr_pc = "commit" /\ wr_pc' # "commit"
          /\ last_write' \in {"tmp_failed", "replace_failed"} =>
            /\ segments' = segments
            /\ file' = file
            /\ updates' = updates
            /\ wr_pc' \in {"loop", "done"}
     /\ wr_pc = "commit" /\ wr_pc' # "commit" /\ last_write' = "ok" =>
            file' = [state |-> "complete", lines |-> wr_lines]
     /\ wr_pc = "snapshot" /\ wr_pc' = "commit" =>
            wr_lines' = DialogueLines(segments)]_vars

\* the temp file could not be written while the store held segments; the
\* callback was never invoked and the writer is back in its loop
C10_Witness ==
  /\ last_write = "tmp_failed"
  /\ wr_pc = "loop"
  /\ Len(segments) > 0
  /\ updates = 0

-----------------------------------------------------------------------------
(* The subtitle store on its own: add_segments and write called directly   *)
(* on a SubtitleWriter                                                      *)

\* the store holds at most MaxStore segments
MaxStore == 3
\* a call of add_segments hands over at most MaxNew segments
MaxNew == 2

Seg(start, end, text) == [start |-> start, end |-> end, text |-> text]

\* segments handed to add_segments, in milliseconds: equal starts, ranges
\* that overlap with the same and with another text, ranges 100 ms apart
\* (the tolerance) and further apart; one with times that are no whole
\* centiseconds, an end past one hour, and a text with a comma and a forced
\* line break
SegUniverse ==
  {Seg(0, 400, <<"a">>), Seg(0, 400, <<"b">>), Seg(500, 900, <<"a">>),
   Seg(500, 900, <<"b">>), Seg(0, 1600, <<"a">>),
   Seg(1005, 3723456, <<"a", ",", " ", "b", "\\", "N", "c">>)}
SegLists ==
  UNION {[1..n -> SegUniverse] : n \in 1..MaxNew}

\* subtitle.py:90-114: add_segments(new) on the store
StoreAddSegments ==
  \E new \in SegLists :
    /\ Len(segments) + Len(new) <= MaxStore
    /\ LET r == AddSegments(segments, new)
       IN segments' = r.segments /\ call_result' = r.added
    /\ call_args' = new
    /\ UNCHANGED <<inputVars, lockVars, put_order, updates_left, eventVars, schedVars, audioVars,
                   file, controlVars, tu_off, workerVars, writerVars,
                   histVars>>

\* subtitle.py:205-213: write() builds the lines of the document from the
\* store, under the lock add_segments takes
StoreWrite ==
  /\ wr_lines' = DialogueLines(segments)
  /\ UNCHANGED <<inputVars, lockVars, put_order, updates_left, eventVars, schedVars, audioVars,
                 storeVars, controlVars, tu_off, workerVars, wr_pc,
                 first_write, wr_final, callVars, histVars>>

StoreInit == \E d \in Durations : InitWith(d, {}, FALSE, {}, 0)
StoreNext == StoreAddSegments \/ StoreWrite
StoreSpec == StoreInit /\ [][StoreNext]_vars

\* the start time a cue line shows, in centiseconds
CueStart(line) ==
  ((line[1][1] * 60 + line[1][2]) * 60 + line[1][3]) * 100 + line[1][4]

\* C11: after any sequence of add_segments calls, interleaved in any way
\* with write(), the segments of the store are in non-decreasing order of
\* start time, and so are the cue lines of every document write() builds.
C11_StoreSorted ==
  /\ \A k \in 1..(Len(segments) - 1) : segments[k].start <= segments[k + 1].start
  /\ \A k \in 1..(Len(wr_lines) - 1) : CueStart(wr_lines[k]) <= CueStart(wr_lines[k + 1])

\* a call handed over a later segment before an earlier one, both were
\* added to a segment already there, and a document was built from the three
C11_Witness ==
  /\ Len(call_args) = 2
  /\ call_args[1].start > call_args[2].start
  /\ call_result = 2
  /\ Len(segments) = 3
  /\ Len(wr_lines) = 3

\* two segments have the same text and ranges that overlap within the
\* tolerance of 0.1 s
SameTextOverlap(a, b) ==
  /\ a.text = b.text
  /\ ~(a.end + overlap_tolerance < b.start \/ b.end + overlap_tolerance < a.start)

\* C12: the store never holds two segments with the same text and ranges
\* that overlap within the tolerance; add_segments drops such a new segment,
\* also when the stored one went in earlier in the same call, and the count
\* it returns is the number of segments that went in.
C12_NoDuplicates ==
  /\ [](\A i, j \in 1..Len(segments) :
          i # j => ~SameTextOverlap(segments[i], segments[j]))
  /\ [][call_args' # call_args \/ segments' # segments =>
          /\ call_result' = Len(segments') - Len(segments)
          /\ \A k \in 1..Len(call_args') :
               \E i \in 1..Len(segments') :
                 segments'[i] = call_args'[k]
                 \/ SameTextOverlap(segments'[i], call_args'[k])]_vars

\* a call on the empty store handed over two overlapping segments with the
\* same text: the first went in, the second was dropped and not counted
C12_Witness ==
  /\ call_args = <<Seg(0, 400, <<"a">>), Seg(0, 1600, <<"a">>)>>
  /\ call_result = 1
  /\ segments = <<Seg(0, 400, <<"a">>)>>

-----------------------------------------------------------------------------
(* Properties of the cues the engine produces                               *)

\* C13: the cues of the store are non-overlapping: of two neighbours in
\* start order the later one starts no earlier than the earlier one ends,
\* also when they come from different chunks.
C13_CuesDoNotOverlap ==
  \A k \in 1..(Len(segments) - 1) : segments[k + 1].start >= segments[k].end

-----------------------------------------------------------------------------
(* The refiner on its own: _words_to_segments called directly, its result  *)
(* handed to add_segments as add_words does                                 *)

\* a word list has at most MaxWords words
MaxWords == 3

\* a configuration with short lines; the other fields as the defaults
NarrowConfig ==
  [DefaultSubtitleConfig EXCEPT !.max_chars_per_line = 5]

\* words: without and with punctuation, short, and longer than a narrow
\* line on its own; with times that follow each other, that lie inside
\* another word's range, and that last longer than max_duration_s
WordTexts ==
  {<<"a">>, <<"b", ".">>, <<"c", "c", "c", "c">>,
   <<"d", "d", "d", "d", "d", "d">>}
WordTimes == {<<0, 400>>, <<100, 200>>, <<500, 9000>>}
WordUniverse ==
  {[word |-> w, start |-> t[1], end |-> t[2]] : w \in WordTexts, t \in WordTimes}
WordLists == UNION {[1..n -> WordUniverse] : n \in 0..MaxWords} \cup {WordsHello}
TimeOffsets == {0, 1000 * chunk_duration_seconds}
RefineInputs ==
  [cfg : {DefaultSubtitleConfig, NarrowConfig}, words : WordLists,
   time_offset : TimeOffsets]

\* subtitle.py:134-167: a call of _words_to_segments, up to the end of the
\* line loop
RefineLines ==
  /\ call_args = NoCall
  /\ \E input \in RefineInputs :
       /\ call_args' = input
       /\ call_result' =
            [pc |-> "lines",
             initial_segments |->
               LineLoop(input.cfg, input.words, input.time_offset, 1, <<>>, <<>>),
             segments |-> <<>>, again |-> <<>>]
  /\ UNCHANGED <<inputVars, lockVars, put_order, updates_left, eventVars, schedVars, audioVars,
                 storeVars, controlVars, tu_off, workerVars, writerVars,
                 histVars>>

\* subtitle.py:166-201: the timing loop and the return
RefineTiming ==
  /\ call_args # NoCall
  /\ call_result.pc = "lines"
  /\ call_result' =
       [call_result EXCEPT
          !.pc = "done",
          !.segments = TimingLoop(call_args.cfg, call_result.initial_segments,
                                  1, <<>>)]
  /\ UNCHANGED <<inputVars, lockVars, put_order, updates_left, eventVars, schedVars, audioVars,
                 storeVars, controlVars, tu_off, workerVars, writerVars,
                 call_args, histVars>>

\* subtitle.py:87-88: add_words hands the result to add_segments
RefineStore ==
  /\ call_args # NoCall
  /\ call_result.pc = "done"
  /\ segments' = AddSegments(segments, call_result.segments).segments
  /\ call_result' = [call_result EXCEPT !.pc = "stored"]
  /\ UNCHANGED <<inputVars, lockVars, put_order, updates_left, eventVars, schedVars, audioVars,
                 file, controlVars, tu_off, workerVars, writerVars,
                 call_args, histVars>>

\* subtitle.py:128-201: _words_to_segments called once more with the same
\* arguments, after the first call returned or after its result went into
\* the store.  It reads its arguments and self.config only.
\* (RefineRepeatStateful: a faulty refiner that leaves out the segments the
\* store already holds)
RefineRepeatStateful ==
  /\ call_args # NoCall
  /\ call_result.pc \in {"done", "stored"}
  /\ call_result' =
       [call_result EXCEPT
          !.pc = "again",
          !.again = SelectSeq(WordsToSegments(call_args.cfg, call_args.words,
                                              call_args.time_offset),
                              LAMBDA seg : ~IsDuplicate(segments, seg))]
  /\ UNCHANGED <<inputVars, lockVars, put_order, updates_left, eventVars, schedVars, audioVars,
                 storeVars, controlVars, tu_off, workerVars, writerVars,
                 call_args, histVars>>
RefineRepeat ==
  /\ call_args # NoCall
  /\ call_result.pc \in {"done", "stored"}
  /\ call_result' =
       [call_result EXCEPT
          !.pc = "again",
          !.again = WordsToSegments(call_args.cfg, call_args.words,
                                    call_args.time_offset)]
  /\ UNCHANGED <<inputVars, lockVars, put_order, updates_left, eventVars, schedVars, audioVars,
                 storeVars, controlVars, tu_off, workerVars, writerVars,
                 call_args, histVars>>

RefineInit == \E d \in Durations : InitWith(d, {}, FALSE, {}, 0)
RefineNext == RefineLines \/ RefineTiming \/ RefineStore \/ RefineRepeat
RefineSpec == RefineInit /\ [][RefineNext]_vars

\* _words_to_segments has returned
Refined == call_args # NoCall /\ call_result.pc \in {"done", "stored", "again"}

\* C14: every segment the refiner returns, and so every segment that goes
\* into the store, ends strictly after it starts; a segment with
\* end <= start after padding, clamping and the minimum gap is left out.
C14_EndAfterStart ==
  /\ Refined =>
       \A k \in 1..Len(call_result.segments) :
         call_result.segments[k].end > call_result.segments[k].start
  /\ \A k \in 1..Len(segments) : segments[k].end > segments[k].start

\* the timing loop left a line out, kept another one, and the result went
\* into the store
C14_Witness ==
  /\ Refined
  /\ call_result.pc = "stored"
  /\ Len(call_result.segments) < Len(call_result.initial_segments)
  /\ Len(segments) > 0

\* the texts of segments, joined by single spaces
RECURSIVE JoinTexts(_)
JoinTexts(segs) ==
  IF segs = <<>> THEN <<>>
  ELSE IF Len(segs) = 1 THEN segs[1].text
  ELSE segs[1].text \o <<" ">> \o JoinTexts(Tail(segs))

\* C15: the line loop neither drops nor duplicates a word: the words of the
\* lines it emits, in order, are the words it was given; a word put off
\* because the line would be too long starts a later line, also when it is
\* the last word.
C15_LinesKeepEveryWord ==
  call_args # NoCall =>
    JoinTexts(call_result.initial_segments) = JoinWords(call_args.words)

-----------------------------------------------------------------------------
(* Reading a written document back                                          *)

\* the parts of cs between the first n - 1 occurrences of sep; the last
\* part takes the rest
RECURSIVE SplitFields(_, _, _)
SplitFields(cs, sep, n) ==
  LET hits == {k \in 1..Len(cs) : cs[k] = sep}
  IN IF n <= 1 \/ hits = {} THEN <<cs>>
     ELSE LET k == CHOOSE i \in hits : \A j \in hits : i <= j
          IN <<SubSeq(cs, 1, k - 1)>>
             \o SplitFields(SubSeq(cs, k + 1, Len(cs)), sep, n - 1)

\* the number a string of decimal digits stands for
RECURSIVE Number(_)
Number(cs) ==
  IF cs = <<>> THEN 0
  ELSE Number(SubSeq(cs, 1, Len(cs) - 1)) * 10
       + (CHOOSE d \in 0..9 : DigitChars[d + 1] = cs[Len(cs)])

\* H:MM:SS.cc read as milliseconds
ParseTime(cs) ==
  LET hms == SplitFields(cs, ":", 3)
      sc == SplitFields(hms[3], ".", 2)
  IN ((Number(hms[1]) * 60 + Number(hms[2])) * 60 + Number(sc[1])) * 1000
     + Number(sc[2]) * 10

\* a Dialogue line read by the Format line of the header (subtitle.py:276):
\* Layer, Start, End, Style, Name, MarginL, MarginR, MarginV, Effect, Text
ParseCue(cs) ==
  LET f == SplitFields(cs, ",", 10)
  IN [start |-> ParseTime(f[2]), end |-> ParseTime(f[3]), text |-> f[10]]

\* a time in milliseconds cut to whole centiseconds
Centis(ms) == (ms \div 10) * 10

-----------------------------------------------------------------------------
(* The refiner on the words "Hello", "world."                                *)

\* _words_to_segments(WordsHello, 0.0) under the default configuration
HelloCall ==
  [cfg |-> DefaultSubtitleConfig, words |-> WordsHello, time_offset |-> 0]
HelloReturned == Refined /\ call_args = HelloCall
HelloText == <<"H", "e", "l", "l", "o", " ", "w", "o", "r", "l", "d", ".">>

\* C18 as stated: the call returns exactly one segment with the text
\* "Hello world.", start 0 and an end of 1.0 s, to the centisecond.
C18_HelloEndAboutOne ==
  HelloReturned =>
    /\ Len(call_result.segments) = 1
    /\ call_result.segments[1].text = HelloText
    /\ call_result.segments[1].start = 0
    /\ call_result.segments[1].end \in 990..1010

\* C18: the call returns exactly one segment with the text "Hello world.",
\* start clamped to 0 and end 1.05 s (the end of the last word, 0.9 s, plus
\* the padding of 0.15 s).
C18_HelloOneSegment ==
  HelloReturned =>
    call_result.segments =
      <<[start |-> 0, end |-> 1050, text |-> HelloText]>>

\* the call has returned its one segment
C18_Witness ==
  /\ HelloReturned
  /\ call_result.pc = "done"
  /\ Len(call_result.segments) = 1

-----------------------------------------------------------------------------
(* The window of process_time_update                                        *)

\* engine.py:188-191: the chunk indices process_time_update(t) hands to
\* _queue_chunk
Window(t) ==
  {i \in 0..(total_chunks - 1) :
     i - CurrentChunk(t) >= -1 /\ i - CurrentChunk(t) <= 3}

\* every chunk of the window of the last update is marked in the next state
WindowCovered ==
  \A i \in Window(last_known_time') :
    ChunkStart(i) \in processed_chunks' \cup queued_chunks'

\* the step is the last _queue_chunk call of a process_time_update call
UpdateReturns == tu_off # 4 /\ tu_off' = 4

\* a _queue_chunk call of process_time_update admits only a chunk of the
\* window that was neither processed nor queued
AdmitsFromWindow ==
  tu_off # 4 /\ tu_off' # tu_off =>
    \A e \in task_queue' \ task_queue :
      /\ e[2][3] \in Window(last_known_time)
      /\ e[2][1] \notin processed_chunks \cup queued_chunks

\* C19 as stated: when process_time_update(t) returns, every chunk of the
\* window is processed or queued, and the call admitted only chunks of the
\* window that were neither.
C19_WindowCoveredAtReturn ==
  [][(UpdateReturns => WindowCovered) /\ AdmitsFromWindow]_vars

\* C19: when process_time_update(t) returns on an engine on which stop() has
\* not been called, every chunk of the window is processed or queued, and
\* the call admitted only chunks of the window that were neither.
C19_WindowCoveredUnlessStopped ==
  [][(UpdateReturns /\ ~stop_event' => WindowCovered) /\ AdmitsFromWindow]_vars

\* an update at 130 s of a three-chunk recording has returned and left two
\* admitted chunks in the queue
C19_Witness ==
  /\ tu_off = 4
  /\ last_known_time = 130
  /\ total_chunks = 3
  /\ ~stop_event
  /\ Cardinality({e \in task_queue : e[3] = "active"}) >= 2
  /\ \A i \in Window(130) : ChunkStart(i) \in processed_chunks \cup queued_chunks

-----------------------------------------------------------------------------
(* The order in which the worker takes tasks                                 *)

\* positions that make a tie across two updates: the update at 120 s admits
\* chunk 1 at priority 60, the update at 60 s (no seek) chunk 0 at
\* priority 60
TieTimes == {60, 120}

TieInit == \E d \in Durations : InitWith(d, {WordsHello}, FALSE, TieTimes, -1)
TieSpec == TieInit /\ [][SchedNext]_vars

\* the position of an entry in the order of the put() calls
PutIndex(e) == CHOOSE k \in 1..Len(put_order) : put_order[k] = e

\* the step is a get() of the worker that returned the entry e
Dequeues(e) == e \in task_queue /\ task_queue' = task_queue \ {e}

\* C20 as stated: the entry the worker takes has the least priority of the
\* queue, and of the entries at that priority it is the one put first.
C20_MinimalThenFifo ==
  [][\A e \in task_queue :
       Dequeues(e) /\ w_pc = "get" =>
         \A f \in task_queue :
           \/ e[1] < f[1]
           \/ e[1] = f[1] /\ PutIndex(e) <= PutIndex(f)]_vars

\* C20: the entry the worker takes has the least priority of the queue, and
\* of the entries at that priority it is the one with the least chunk start
\* time, whichever was put first.
C20_MinimalThenStart ==
  [][\A e \in task_queue :
       Dequeues(e) /\ w_pc = "get" =>
         \A f \in task_queue :
           \/ e[1] < f[1]
           \/ e[1] = f[1] /\ e[2][1] <= f[2][1]]_vars

\* the worker has taken chunk 0 at priority 60 while chunk 1, put before it
\* by an earlier update, waits at the same priority
C20_Witness ==
  /\ w_pc = "read"
  /\ w_entry = <<60, ChunkTask(0, duration), "active">>
  /\ <<60, ChunkTask(1, duration), "active">> \in task_queue

-----------------------------------------------------------------------------
(* Nearness of the task the worker takes                                    *)

\* distance of the chunk of a queue entry from the last reported position
Distance(e) == Abs(e[2][1] - last_known_time)

\* C21: when the worker takes an entry that _queue_chunk admitted (and no
\* process_time_update call is under way), the start of its chunk is at
\* least as near to the last reported position as the start of every other
\* such entry in the queue.
C21_NearestActiveFirst ==
  [][\A e \in task_queue :
       Dequeues(e) /\ w_pc = "get" /\ e[3] = "active" /\ tu_off = 4 =>
         \A f \in task_queue :
           f[3] = "active" => Distance(e) <= Distance(f)]_vars

-----------------------------------------------------------------------------
(* One idle-backfill step                                                   *)

\* the step is a _queue_idle_chunk call
IdleStep == w_pc = "idle" /\ w_pc' = "loop"

\* the chunk indices from the idle pointer on that are neither processed nor
\* queued
IdleFree ==
  {i \in 0..(total_chunks - 1) :
     /\ i >= idle_pointer
     /\ ChunkStart(i) \notin processed_chunks
     /\ ChunkStart(i) \notin queued_chunks}

\* C22: one idle-backfill step admits exactly the first index i from the
\* idle pointer on whose start is neither processed nor queued, at priority
\* IDLE_PRIORITY_OFFSET + i, marks it queued and sets the pointer to i + 1;
\* when there is no such index it changes neither the queue nor the
\* processed and queued sets.
C22_IdleStepAdmitsFirstFree ==
  [][IdleStep =>
       /\ processed_chunks' = processed_chunks
       /\ IF IdleFree = {}
          THEN task_queue' = task_queue /\ queued_chunks' = queued_chunks
          ELSE \E i \in IdleFree :
                 /\ \A j \in IdleFree : i <= j
                 /\ \E e \in task_queue' :
                      /\ task_queue' = task_queue \cup {e}
                      /\ e \notin task_queue
                      /\ e[1] = IDLE_PRIORITY_OFFSET + i
                      /\ e[2][1] = i * chunk_duration_seconds
                      /\ e[2][3] = i
                 /\ queued_chunks' =
                      queued_chunks \cup {i * chunk_duration_seconds}
                 /\ idle_pointer' = i + 1]_vars

\* an idle step has passed over chunk 0, which is queued, and admitted
\* chunk 1
C22_Witness ==
  /\ w_pc = "loop"
  /\ idle_pointer = 2
  /\ <<IDLE_PRIORITY_OFFSET + 1, ChunkTask(1, duration), "idle">> \in task_queue
  /\ \E e \in task_queue : e[3] = "active" /\ e[2][3] = 0


\* C23: an idle-backfill step runs only in a state in which the priority
\* queue is empty.
C23_IdleOnlyWhenQueueEmpty == [][IdleStep => task_queue = {}]_vars

-----------------------------------------------------------------------------
(* The finished mark                                                        *)

\* C24: the engine is marked finished only when the start of every chunk is
\* in the processed set; a worker that left its loop because of the stop
\* signal before that leaves the engine not finished.
C24_FinishedOnlyWhenAllProcessed ==
  finished_event => \A i \in 0..(total_chunks - 1) :
                      i * chunk_duration_seconds \in processed_chunks

\* the worker has ended and marked the engine finished
C24_Witness ==
  /\ w_pc = "done"
  /\ finished_event
  /\ Cardinality(processed_chunks) = MaxChunks

\* the worker has ended on the stop signal with chunks left, and the engine
\* is not finished
C24_StoppedEarly ==
  /\ w_pc = "done"
  /\ stop_event
  /\ Cardinality(processed_chunks) < total_chunks
  /\ ~finished_event

-----------------------------------------------------------------------------
(* The queued set against the queue                                         *)

\* the chunk starts of the entries of the queue
QueueStarts == {e[2][1] : e \in task_queue}

\* C25: as long as stop() has not been called, every task in the queue has
\* its start in the queued set and not in the processed set, and every start
\* in the queued set belongs to a task that is in the queue or that the
\* worker holds.
C25_QueuedMatchesQueue ==
  ~stop_event =>
    /\ QueueStarts \subseteq queued_chunks
    /\ QueueStarts \cap processed_chunks = {}
    /\ queued_chunks \subseteq
         QueueStarts \cup (IF InFlight THEN {InFlightStart} ELSE {})

-----------------------------------------------------------------------------
(* The rewrite signal between worker and writer                             *)

\* an engine that is never stopped, without the player: the worker gets its
\* tasks from idle backfill, the files can be opened and written.  Both
\* threads keep running; start() and the extraction thread run to their end.
FlushInit == \E d \in Durations : InitWith(d, {WordsHello}, FALSE, {}, 0)
FlushNext ==
  \/ StartNext \/ ExtractionNext \/ WorkerNext
  \/ WriterLoop \/ WriterWait \/ WriterSleep \/ WriterSnapshot \/ WriterCommit
FlushSpec ==
  /\ FlushInit
  /\ [][FlushNext]_vars
  /\ WF_vars(WorkerNext)
  /\ WF_vars(WriterLoop \/ WriterWait \/ WriterSleep \/ WriterSnapshot
             \/ WriterCommit)
  /\ WF_vars(StartNext)
  /\ WF_vars(ExtractionNext)

\* the segments add_words can put into the store in such a run
FlushSegments ==
  UNION {{AddWords(DefaultSubtitleConfig, <<>>, WordsHello,
                   1000 * ChunkStart(i)).segments[k] :
            k \in 1..Len(AddWords(DefaultSubtitleConfig, <<>>, WordsHello,
                                  1000 * ChunkStart(i)).segments)} :
         i \in 0..(MaxChunks - 1)}

InStore(seg) == \E k \in 1..Len(segments) : segments[k] = seg
InDocument(seg) ==
  /\ file.state = "complete"
  /\ \E j \in 1..Len(file.lines) :
       file.lines[j] = <<FormatTime(seg.start), FormatTime(seg.end), seg.text>>

\* C26: in an engine that is not stopped and whose file writes succeed,
\* every segment that is put into the store is eventually in the document
\* in the target file.
C26_EverySegmentWritten ==
  \A seg \in FlushSegments : InStore(seg) ~> InDocument(seg)

\* the document holds the segments of all chunks after more than one write
C26_Witness ==
  /\ Len(file.lines) = MaxChunks
  /\ updates >= 2
  /\ \A seg \in FlushSegments : InStore(seg) /\ InDocument(seg)

-----------------------------------------------------------------------------
(* Shutdown of the worker and the writer                                    *)

\* the engine of FlushSpec with stop(): stop() may be called at any point
\* after start() returned, or never
ShutdownSpec ==
  /\ FlushInit
  /\ [][WriteNext]_vars
  /\ WF_vars(WorkerNext)
  /\ WF_vars(WriterNext)
  /\ WF_vars(StartNext)
  /\ WF_vars(ExtractionNext)

\* the step begins a write() of the writer loop (not the final flush)
LoopWriteBegins == wr_pc # "snapshot" /\ wr_pc' = "snapshot" /\ wr_pc # "final"

\* the step is a wait() that returned True, followed by clear()
SignalConsumed == wr_pc = "wait" /\ rewrite_needed /\ ~rewrite_needed'

\* C27 as stated: every write of the writer loop begins at the end of a
\* throttle sleep, and a sleep begins only when the signal was consumed.
C27_EveryWriteThrottled ==
  [][/\ LoopWriteBegins => wr_pc = "sleep"
     /\ (wr_pc # "sleep" /\ wr_pc' = "sleep") => SignalConsumed]_vars

\* C27: every write of the writer loop but its first begins at the end of a
\* throttle sleep, and a sleep begins only when the signal was consumed; the
\* first write of the loop begins as soon as the signal was consumed, with
\* no sleep.
C27_WritesAfterFirstThrottled ==
  [][/\ LoopWriteBegins =>
          IF first_write THEN SignalConsumed ELSE wr_pc = "sleep"
     /\ (wr_pc # "sleep" /\ wr_pc' = "sleep") =>
          SignalConsumed /\ ~first_write]_vars

\* the writer loop is in its second write, after a sleep
C27_Witness ==
  /\ wr_pc = "snapshot"
  /\ ~wr_final
  /\ ~first_write
  /\ updates >= 1


\* the worker has seen the stop event set: at the loop condition
\* (engine.py:198), after get() (engine.py:205) or after transcribe()
\* (engine.py:258)
StopObserved == w_pc \in {"exit", "done"} \/ w_outcome = "stopped"

\* C28: once stop() has set the stop event on a started engine, the worker
\* loop and the writer loop both come to their end; from the point where the
\* worker has seen the event it takes no task from the queue and begins no
\* _process_chunk call; and the writer ends either after a final write or
\* with an empty store.
C28_ShutdownEndsBothLoops ==
  /\ (stop_event /\ start_pc = "running") ~> (w_pc = "done" /\ wr_pc = "done")
  /\ [][StopObserved =>
          /\ ~(w_pc = "get" /\ \E e \in task_queue : Dequeues(e))
          /\ (w_pc' \in Processing => w_pc \in Processing)]_vars
  /\ [][wr_pc # "done" /\ wr_pc' = "done" =>
          \/ wr_pc = "commit" /\ wr_final
          \/ wr_pc = "final" /\ Len(segments) = 0]_vars

\* both loops have ended after stop(), the writer after a final flush that
\* put the store into the target
C28_Witness ==
  /\ stop_event
  /\ w_pc = "done"
  /\ wr_pc = "done"
  /\ wr_final
  /\ Len(file.lines) > 0

-----------------------------------------------------------------------------
(* Locks.  Each thread's code is followed from lock operation to lock       *)
(* operation: a program maps a position to the operation the thread does    *)
(* there ("acquire" or "release" of a lock, a "blocking" call, or a "step"  *)
(* of its own) and to the positions that can follow.  What the steps        *)
(* compute is in the actions above; here only the order of the operations   *)
(* matters, and every branch of the code is a possible successor.           *)

Ins(op, lock, next) == [op |-> op, lock |-> lock, next |-> next]

\* engine.py:194-218 (_worker), 243-285 (_process_chunk), 309-325
\* (_queue_idle_chunk), subtitle.py:74-114 (add_words, add_segments)
WorkerProgram ==
  ("begin" :> Ins("step", "none", {"loop"}))
  @@ ("loop" :> Ins("step", "none", {"get", "end"}))
  @@ ("get" :> Ins("step", "none", {"read_chunk", "idle_enter", "end"}))
  @@ ("idle_enter" :> Ins("acquire", "queue", {"idle_scan"}))
  @@ ("idle_scan" :> Ins("step", "none", {"idle_exit"}))
  @@ ("idle_exit" :> Ins("release", "queue", {"loop"}))
  @@ ("read_chunk" :> Ins("blocking", "none", {"transcribe", "finally_enter"}))
  @@ ("transcribe" :> Ins("blocking", "none", {"refine", "finally_enter"}))
  @@ ("refine" :> Ins("step", "none", {"add_enter", "on_progress"}))
  @@ ("add_enter" :> Ins("acquire", "store", {"add"}))
  @@ ("add" :> Ins("step", "none", {"add_exit"}))
  @@ ("add_exit" :> Ins("release", "store", {"on_progress"}))
  @@ ("on_progress" :> Ins("blocking", "none", {"finally_enter"}))
  @@ ("finally_enter" :> Ins("acquire", "queue", {"finally"}))
  @@ ("finally" :> Ins("step", "none", {"finally_exit"}))
  @@ ("finally_exit" :> Ins("release", "queue", {"loop"}))

\* engine.py:220-241 (_writer_worker), subtitle.py:203-232 (write), 64-67
\* (segment_count)
\* (WriterProgramWritesLocked: a faulty write() that writes the file inside
\* the `with self._lock` block)
WriterProgramWritesLocked ==
  ("begin" :> Ins("step", "none", {"loop"}))
  @@ ("loop" :> Ins("step", "none", {"wait", "count_enter"}))
  @@ ("wait" :> Ins("step", "none", {"loop", "sleep", "write_enter"}))
  @@ ("sleep" :> Ins("blocking", "none", {"write_enter"}))
  @@ ("write_enter" :> Ins("acquire", "store", {"lines"}))
  @@ ("lines" :> Ins("step", "none", {"file"}))
  @@ ("file" :> Ins("blocking", "none", {"write_exit"}))
  @@ ("write_exit" :> Ins("release", "store", {"on_update", "loop"}))
  @@ ("on_update" :> Ins("blocking", "none", {"loop"}))
  @@ ("count_enter" :> Ins("acquire", "store", {"count"}))
  @@ ("count" :> Ins("step", "none", {"count_exit"}))
  @@ ("count_exit" :> Ins("release", "store", {"final_enter", "end"}))
  @@ ("final_enter" :> Ins("acquire", "store", {"final_lines"}))
  @@ ("final_lines" :> Ins("step", "none", {"final_exit"}))
  @@ ("final_exit" :> Ins("release", "store", {"final_file"}))
  @@ ("final_file" :> Ins("blocking", "none", {"final_on_update", "end"}))
  @@ ("final_on_update" :> Ins("blocking", "none", {"end"}))
WriterProgram ==
  ("begin" :> Ins("step", "none", {"loop"}))
  @@ ("loop" :> Ins("step", "none", {"wait", "count_enter"}))
  @@ ("wait" :> Ins("step", "none", {"loop", "sleep", "write_enter"}))
  @@ ("sleep" :> Ins("blocking", "none", {"write_enter"}))
  @@ ("write_enter" :> Ins("acquire", "store", {"lines"}))
  @@ ("lines" :> Ins("step", "none", {"write_exit"}))
  @@ ("write_exit" :> Ins("release", "store", {"file"}))
  @@ ("file" :> Ins("blocking", "none", {"on_update", "loop"}))
  @@ ("on_update" :> Ins("blocking", "none", {"loop"}))
  @@ ("count_enter" :> Ins("acquire", "store", {"count"}))
  @@ ("count" :> Ins("step", "none", {"count_exit"}))
  @@ ("count_exit" :> Ins("release", "store", {"final_enter", "end"}))
  @@ ("final_enter" :> Ins("acquire", "store", {"final_lines"}))
  @@ ("final_lines" :> Ins("step", "none", {"final_exit"}))
  @@ ("final_exit" :> Ins("release", "store", {"final_file"}))
  @@ ("final_file" :> Ins("blocking", "none", {"final_on_update", "end"}))
  @@ ("final_on_update" :> Ins("blocking", "none", {"end"}))

\* engine.py:170-192 (process_time_update), 294-307 (_queue_chunk), 327-341
\* (_clear_queue); "begin" is the point between two calls
PlayerProgram ==
  ("begin" :> Ins("step", "none", {"clear_enter", "queue_enter"}))
  @@ ("clear_enter" :> Ins("acquire", "queue", {"clear"}))
  @@ ("clear" :> Ins("step", "none", {"clear_exit"}))
  @@ ("clear_exit" :> Ins("release", "queue", {"queue_enter", "begin"}))
  @@ ("queue_enter" :> Ins("acquire", "queue", {"queue"}))
  @@ ("queue" :> Ins("step", "none", {"queue_exit"}))
  @@ ("queue_exit" :> Ins("release", "queue", {"queue_enter", "begin"}))

\* engine.py:145-168 (stop)
ControlProgram ==
  ("begin" :> Ins("step", "none", {"stop_enter"}))
  @@ ("stop_enter" :> Ins("acquire", "queue", {"stop_clear"}))
  @@ ("stop_clear" :> Ins("step", "none", {"stop_exit"}))
  @@ ("stop_exit" :> Ins("release", "queue", {"join"}))
  @@ ("join" :> Ins("blocking", "none", {"close"}))
  @@ ("close" :> Ins("step", "none", {"end"}))

Program(t) ==
  CASE t = "worker" -> WorkerProgram
    [] t = "writer" -> WriterProgram
    [] t = "player" -> PlayerProgram
    [] t = "control" -> ControlProgram

\* the thread has an operation to do, of the kind `op`
AtOp(t, op) == lk_pc[t] \in DOMAIN Program(t) /\ Program(t)[lk_pc[t]].op = op

\* the thread goes on to one of the positions that can follow
GoOn(t) == \E n \in Program(t)[lk_pc[t]].next : lk_pc' = [lk_pc EXCEPT ![t] = n]

\* threading.Lock.acquire: waits until the lock is free
LockAcquire(t) ==
  /\ AtOp(t, "acquire")
  /\ lock_owner[Program(t)[lk_pc[t]].lock] = "free"
  /\ lock_owner' = [lock_owner EXCEPT ![Program(t)[lk_pc[t]].lock] = t]
  /\ GoOn(t)
  /\ UNCHANGED <<inputVars, updates_left, eventVars, schedVars, audioVars,
                 storeVars, controlVars, tu_off, workerVars, writerVars,
                 callVars, histVars, put_order>>

\* threading.Lock.release, at the end of a `with` block
LockRelease(t) ==
  /\ AtOp(t, "release")
  /\ lock_owner' = [lock_owner EXCEPT ![Program(t)[lk_pc[t]].lock] = "free"]
  /\ GoOn(t)
  /\ UNCHANGED <<inputVars, updates_left, eventVars, schedVars, audioVars,
                 storeVars, controlVars, tu_off, workerVars, writerVars,
                 callVars, histVars, put_order>>

\* a blocking call returns: read_chunk, transcribe, the callbacks, sleep,
\* the file write, join
BlockingCall(t) ==
  /\ AtOp(t, "blocking")
  /\ GoOn(t)
  /\ UNCHANGED <<inputVars, updates_left, eventVars, schedVars, audioVars,
                 storeVars, controlVars, tu_off, workerVars, writerVars,
                 callVars, histVars, put_order, lock_owner>>

\* any other code between two lock operations
LocalStep(t) ==
  /\ AtOp(t, "step")
  /\ GoOn(t)
  /\ UNCHANGED <<inputVars, updates_left, eventVars, schedVars, audioVars,
                 storeVars, controlVars, tu_off, workerVars, writerVars,
                 callVars, histVars, put_order, lock_owner>>

LockInit == \E d \in Durations : InitWith(d, {}, FALSE, {}, 0)
LockNext ==
  \E t \in Threads :
    LockAcquire(t) \/ LockRelease(t) \/ BlockingCall(t) \/ LocalStep(t)
LockSpec == LockInit /\ [][LockNext]_vars

\* the locks the thread holds
Held(t) == {l \in Locks : lock_owner[l] = t}

\* C29: no thread holds the scheduler lock or the store lock while it is in
\* a blocking call (audio read, transcription, file write, throttle sleep,
\* a callback, join).
C29_NoLockAcrossBlockingCall ==
  \A t \in Threads : AtOp(t, "blocking") => Held(t) = {}

\* the writer is in its file write right after it built the lines under the
\* store lock, while the worker holds the store lock for add_segments and
\* the player the scheduler lock
C29_Witness ==
  /\ lk_pc["writer"] = "file"
  /\ lock_owner["store"] = "worker"
  /\ lock_owner["queue"] = "player"

-----------------------------------------------------------------------------
(* read_chunk while the extraction runs                                     *)

\* C30: a read_chunk call made while the extraction thread is running and
\* has not failed (and the extractor is not closed) does not return "no
\* audio": the chunk is not given up without being transcribed.
C30_ReadWaitsForExtraction ==
  [][(w_pc = "read" /\ w_pc' # "read" /\ extraction = "running"
      /\ ~audio_closed /\ ~stop_event)
       => w_outcome' # "no_audio"]_vars

-----------------------------------------------------------------------------
(* The progress callback                                                    *)

\* the scheduler of an engine that was given a progress callback
\* (service.py:215), with a player that reports MaxUpdates positions
ProgressInit ==
  \E d \in Durations :
    InitEngine(d, {WordsHello}, FALSE, SeekTimes, MaxUpdates, TRUE)
ProgressSpec == ProgressInit /\ [][SchedNext]_vars

\* the completed counts the callback was called with, in the order of the
\* calls
Completed == [i \in 1..Len(progress) |-> progress[i][1]]

\* C31: the progress callback is called for every chunk the worker finishes,
\* whatever the outcome of the chunk, so that once the engine is finished
\* some call reported completedChunks equal to totalChunks.
C31_FinishedReportsAll ==
  finished_event =>
    \E i \in 1..Len(progress) : progress[i][1] = progress[i][2]

\* C35: the progress callback is never called with completedChunks greater
\* than totalChunks, and never with a completed count lower than one of an
\* earlier call, whatever the interleaving of seeks and chunk processing.
C35_ProgressBoundedMonotone ==
  \A i \in 1..Len(progress) :
    /\ progress[i][1] <= progress[i][2]
    /\ \A j \in 1..i : Completed[j] <= Completed[i]

-----------------------------------------------------------------------------
(* Further properties of the refiner                                        *)

\* C32: in the result of one _words_to_segments call every segment starts
\* at least min_gap_s after the end of the segment before it, so the
\* segments of one call are in increasing order of start time and do not
\* overlap.
C32_MinimumGapKept ==
  Refined =>
    \A k \in 1..(Len(call_result.segments) - 1) :
      /\ call_result.segments[k + 1].start >=
           call_result.segments[k].end + call_args.cfg.min_gap_s
      /\ call_result.segments[k + 1].start > call_result.segments[k].start
      /\ call_result.segments[k + 1].start >= call_result.segments[k].end

\* a call returned two segments, and the second one was moved forward: its
\* padded start lay before the end of the first plus the gap
C32_Witness ==
  /\ Refined
  /\ Len(call_result.initial_segments) = 2
  /\ Len(call_result.segments) = 2
  /\ PaddedStart(call_args.cfg, call_result.initial_segments[2]) <
       call_result.segments[1].end + call_args.cfg.min_gap_s
  /\ call_result.segments[2].start =
       call_result.segments[1].end + call_args.cfg.min_gap_s

\* a word of the line with this text that has terminal punctuation is
\* followed by another word (the words hold no spaces)
PunctInsideLine(text) ==
  \E k \in 1..Len(text) :
    /\ text[k] \in {".", "?", "!"}
    /\ \E j \in (k + 1)..Len(text) : text[j] = " "

\* C33: in the lines the line loop emits, every word with terminal
\* punctuation (. ? !) is the last word of its line, also when the word was
\* put off to the next line because the line would have been too long.
C33_PunctuationEndsLine ==
  call_args # NoCall =>
    \A k \in 1..Len(call_result.initial_segments) :
      ~PunctInsideLine(call_result.initial_segments[k].text)

-----------------------------------------------------------------------------
(* A position update that is no seek                                        *)

\* the step is the beginning of a process_time_update call, up to the
\* assignment of _last_known_time
UpdateBegins == tu_off = 4 /\ tu_off' # 4
\* the step is one of its _queue_chunk calls
UpdateQueues == tu_off # 4 /\ tu_off' # tu_off

\* C34: a process_time_update call whose time differs from the last known
\* time by at most chunk_duration_seconds (a difference of exactly
\* chunk_duration_seconds included) removes no task from the queue and
\* clears no queued mark: it sets the last known time, and its _queue_chunk
\* calls only add tasks and marks.
C34_SmallMoveOnlyAdds ==
  /\ [][UpdateBegins
         /\ Abs(last_known_time' - last_known_time) <= chunk_duration_seconds =>
           /\ task_queue' = task_queue
           /\ queued_chunks' = queued_chunks
           /\ processed_chunks' = processed_chunks
           /\ idle_pointer' = idle_pointer]_vars
  /\ [][UpdateQueues =>
           /\ task_queue \subseteq task_queue'
           /\ queued_chunks \subseteq queued_chunks'
           /\ last_known_time' = last_known_time
           /\ processed_chunks' = processed_chunks
           /\ idle_pointer' = idle_pointer]_vars

\* the player moved from 60 s to 120 s, exactly one chunk duration: the task
\* for chunk 0 that was admitted at 60 s is still queued and marked, and the
\* call is adding tasks
C34_Witness ==
  /\ last_known_time = 2 * chunk_duration_seconds
  /\ tu_off # 4
  /\ <<chunk_duration_seconds, ChunkTask(0, duration), "active">> \in task_queue
  /\ ChunkStart(0) \in queued_chunks
  /\ ChunkStart(2) \in queued_chunks

-----------------------------------------------------------------------------
(* Adding the same segments twice                                           *)

\* what earlier add_words calls were given, with time offset 0
PriorWords ==
  {WordsHello, <<[word |-> <<"a">>, start |-> 500, end |-> 9000]>>}

\* subtitle.py:74-88: an add_words call before the call that is followed
PriorAddWords ==
  /\ call_args = NoCall
  /\ segments = <<>>
  /\ \E w \in PriorWords :
       segments' = AddWords(DefaultSubtitleConfig, segments, w, 0).segments
  /\ UNCHANGED <<inputVars, lockVars, put_order, updates_left, eventVars, schedVars, audioVars,
                 file, controlVars, tu_off, workerVars, writerVars,
                 callVars, histVars>>

\* subtitle.py:90-114: add_segments called once more with the list the
\* refiner returned, as add_words does for a chunk that is transcribed a
\* second time with the same words; the count it returns is kept
RepeatAddSegments ==
  /\ call_args # NoCall
  /\ call_result.pc = "stored"
  /\ LET r == AddSegments(segments, call_result.segments)
     IN /\ segments' = r.segments
        /\ call_result' =
             [pc |-> "repeated",
              initial_segments |-> call_result.initial_segments,
              segments |-> call_result.segments,
              again |-> call_result.again,
              added |-> r.added]
  /\ UNCHANGED <<inputVars, lockVars, put_order, updates_left, eventVars, schedVars, audioVars,
                 file, controlVars, tu_off, workerVars, writerVars,
                 call_args, histVars>>

RepeatNext ==
  PriorAddWords \/ RefineLines \/ RefineTiming \/ RefineStore
  \/ RepeatAddSegments
RepeatSpec == RefineInit /\ [][RepeatNext]_vars

\* C36: add_segments is idempotent on what the refiner returns: a second
\* call with the same list inserts nothing, returns 0 and leaves the store
\* as it is, so it gives no cause for a rewrite signal.
C36_SecondAddChangesNothing ==
  [][call_args # NoCall /\ call_result.pc = "stored"
       /\ call_result'.pc = "repeated" =>
         /\ segments' = segments
         /\ call_result'.added = 0]_vars

\* the list was added twice to a store that held a segment before; the
\* first call put in one segment of the list and dropped another
C36_Witness ==
  /\ call_args # NoCall
  /\ call_result.pc = "repeated"
  /\ Len(call_result.segments) = 2
  /\ Len(segments) = 2
  /\ \E k \in 1..2 : \A i \in 1..2 : segments[i] # call_result.segments[k]
  /\ \E k \in 1..2 : \E i \in 1..2 : segments[i] = call_result.segments[k]

-----------------------------------------------------------------------------
(* The cues of the file over time                                           *)

\* the cues of a document
Cues(lines) == {lines[k] : k \in 1..Len(lines)}

\* C37: the cues of the subtitle file never get fewer: whenever a write of
\* the engine replaces the file, the new document holds every cue of the
\* document it replaces, and so of every document written before.
C37_CuesNeverShrink ==
  [][file' # file => Cues(file.lines) \subseteq Cues(file'.lines)]_vars

\* after a write of the writer thread that succeeded and put a document of
\* one cue in place, the store has grown and the next write() call holds a
\* document of two cues
C37_Witness ==
  /\ file.state = "complete"
  /\ Len(file.lines) = 1
  /\ updates >= 1
  /\ last_write = "ok"
  /\ wr_pc = "commit"
  /\ Len(wr_lines) = 2
  /\ Cues(file.lines) \subseteq Cues(wr_lines)

\* C38: for words with non-negative times and a non-negative offset, every
\* segment the refiner returns starts at 0 or later and lasts at most
\* max_duration_s; the duration clamp moves the end only (the end lies
\* between min_duration_s and max_duration_s after the padded start of the
\* line), and the minimum gap moves the start forward only, so that it can
\* only shorten the segment.
C38_StartAndDurationBounded ==
  Refined =>
    \A k \in 1..Len(call_result.segments) :
      LET seg == call_result.segments[k]
          cfg == call_args.cfg
      IN /\ seg.start >= 0
         /\ seg.end - seg.start <= cfg.max_duration_s
         /\ \E j \in 1..Len(call_result.initial_segments) :
              LET line == call_result.initial_segments[j]
                  padded == Max2(0, line.start - cfg.padding_s)
              IN /\ seg.start >= padded
                 /\ seg.end - padded >= cfg.min_duration_s
                 /\ seg.end - padded <= cfg.max_duration_s

\* a call returned two segments; the line of the second one lasted longer
\* than max_duration_s, its end was clamped to max_duration_s after its
\* padded start, and the minimum gap then moved its start forward
C38_Witness ==
  /\ Refined
  /\ Len(call_result.initial_segments) = 2
  /\ Len(call_result.segments) = 2
  /\ LET line == call_result.initial_segments[2]
         seg == call_result.segments[2]
         cfg == call_args.cfg
     IN /\ line.end - line.start > cfg.max_duration_s
        /\ seg.end = Max2(0, line.start - cfg.padding_s) + cfg.max_duration_s
        /\ seg.start > Max2(0, line.start - cfg.padding_s)
        /\ seg.end - seg.start < cfg.max_duration_s

\* C39: every line the line loop emits that has more than one word is at
\* most max_chars_per_line characters long; only a line of a single word
\* can be longer.
C39_LongLineIsSingleWord ==
  call_args # NoCall =>
    \A k \in 1..Len(call_result.initial_segments) :
      LET text == call_result.initial_segments[k].text
      IN (\E j \in 1..Len(text) : text[j] = " ") =>
           Len(text) <= call_args.cfg.max_chars_per_line

\* with lines of at most 5 characters, the line loop emitted a line of two
\* words that fits and a line of one word that is longer
C39_Witness ==
  /\ call_args # NoCall
  /\ call_args.cfg.max_chars_per_line = 5
  /\ \E k \in 1..Len(call_result.initial_segments) :
       LET text == call_result.initial_segments[k].text
       IN (\E j \in 1..Len(text) : text[j] = " ") /\ Len(text) <= 5
  /\ \E k \in 1..Len(call_result.initial_segments) :
       Len(call_result.initial_segments[k].text) > 5

=============================================================================
